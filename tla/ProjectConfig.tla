---------------------------- MODULE ProjectConfig ----------------------------
(***************************************************************************)
(* The project configuration page (ProjectConfigView): code roots, remotes *)
(* and approval patterns; environments and their data sources, with an     *)
(* editor for one source or its credential, a modal that manages the       *)
(* environments and one that scans for repositories.  Every change is      *)
(* asked of the main process, which answers with the collection as it      *)
(* leaves it; the user goes on meanwhile, and may close the modal that     *)
(* asked.                                                                  *)
(***************************************************************************)
EXTENDS Naturals, FiniteSets

CONSTANTS
  Items, \* elements of the lists
  Ids,   \* bound: ids of environments and data sources
  Asks,  \* bound: changes asked for
  None   \* no environment, nothing edited, no modal, no answer yet

VARIABLES
  store,      \* what the main process holds
  shown,      \* what the page holds of it
  page,       \* the section, the environment, the edit and the error shown
  modal,      \* the open modal, or None
  asked,      \* changes under way
  adding,     \* the repositories the scan's modal is adding one by one, or None
  made,       \* the last id given
  asks,
  overlapped, \* two changes were under way at a time
  partial     \* adding the chosen repositories failed half way

vars == <<store, shown, page, modal, asked, adding, made, asks, overlapped, partial>>
kept == <<asked, adding, made, asks, overlapped, partial>>

Page == 0 \* asks by the page itself, not by a modal
Lists == {"roots", "remotes", "patterns"}

\* sources: the environment of each data source.
Init ==
  /\ \E envs \in {{}, {1, 2}} :
       store = [envs |-> envs, sources |-> <<>>, roots |-> {}, remotes |-> {}, patterns |-> Items]
  /\ shown = store \* reload(): nothing is drawn before it
  /\ page = [section |-> "code", env |-> IF store.envs = {} THEN None ELSE 1, edit |-> None, error |-> FALSE]
  /\ modal = None /\ asked = {} /\ adding = None /\ made = 2 /\ asks = 0
  /\ overlapped = FALSE /\ partial = FALSE

----------------------------------------------------------------------------
(* The main process.                                                        *)

Normalized(st) ==
  [st EXCEPT !.sources = [s \in {x \in DOMAIN @ : @[x] \in st.envs} |-> @[s]]]

Refused(ask) == ask.op = "saveSource" /\ ask.env \notin store.envs

Executed(ask, id) ==
  Normalized(
    CASE ask.op = "saveEnv" -> [store EXCEPT !.envs = @ \cup {id}]
      [] ask.op = "removeEnv" -> [store EXCEPT !.envs = @ \ {id}]
      [] ask.op = "saveSource" ->
           [store EXCEPT !.sources = [s \in DOMAIN @ \cup {id} |-> IF s = id THEN ask.env ELSE @[s]]]
      [] ask.op = "removeSource" -> [store EXCEPT !.sources = [s \in DOMAIN @ \ {id} |-> @[s]]]
      [] ask.op = "setCredential" -> store
      [] ask.op = "add" -> [store EXCEPT ![ask.on] = @ \cup {id}]
      [] ask.op = "remove" -> [store EXCEPT ![ask.on] = @ \ {id}])

\* A change is made, and its answer is on the way; a new record gets a fresh id.
Executes(ask) ==
  LET new == ask.id = None
      id == IF new THEN made + 1 ELSE ask.id
  IN  /\ ask.answer = None /\ (new => made < Ids)
      /\ store' = IF Refused(ask) THEN store ELSE Executed(ask, id)
      /\ made' = IF new /\ ~Refused(ask) THEN id ELSE made
      /\ asked' = (asked \ {ask}) \cup {[ask EXCEPT !.answer = [st |-> IF Refused(ask) THEN None ELSE store']]}
      /\ UNCHANGED <<shown, page, modal, adding, asks, overlapped, partial>>

\* The main process fails: nothing is written.
Fails(ask) ==
  /\ ask.answer = None /\ asked' = (asked \ {ask}) \cup {[ask EXCEPT !.answer = [st |-> None]]}
  /\ UNCHANGED <<store, shown, page, modal, adding, made, asks, overlapped, partial>>

Ask(ask) ==
  /\ asks < Asks /\ asks' = asks + 1
  /\ overlapped' = (overlapped \/ asked # {} \/ adding # None)
  /\ asked' = asked \cup {[id |-> ask.id, op |-> ask.op, on |-> ask.on, env |-> ask.env, by |-> ask.by,
                           n |-> asks + 1, answer |-> None]}
  /\ UNCHANGED <<store, shown, adding, made, partial>>

----------------------------------------------------------------------------
(* The sections and the list pages.                                         *)

\* renderNav
PicksSection(s) ==
  /\ modal = None /\ s # page.section
  /\ page' = [page EXCEPT !.section = s, !.edit = None, !.error = FALSE]
  /\ UNCHANGED <<store, shown, modal, kept>>

\* Roots are picked, remotes registered or cloned again; what is listed can be removed.
Offered(l, op, x) == op = "remove" => x \in shown[l]

\* The code section has roots and remotes; patterns are listed apart, and only revoked.
ChangesList(l, op, x) ==
  /\ modal = None /\ page.section = (IF l = "patterns" THEN "approvals" ELSE "code")
  /\ Offered(l, op, x) /\ (l = "patterns" => op = "remove")
  /\ Ask([id |-> x, op |-> op, on |-> l, env |-> None, by |-> Page])
  /\ UNCHANGED <<page, modal>>

OpensDiscover ==
  /\ modal = None /\ page.section = "code" /\ modal' = [kind |-> "discover", of |-> asks + 1]
  /\ UNCHANGED <<store, shown, page, kept>>

\* A root that is there already cannot be chosen.
AddsChosen(xs) ==
  /\ modal # None /\ modal.kind = "discover" /\ adding = None
  /\ xs \subseteq Items \ shown.roots /\ adding' = [left |-> xs, of |-> modal.of] /\ asks < Asks /\ asks' = asks + 1
  /\ overlapped' = (overlapped \/ asked # {})
  /\ UNCHANGED <<store, shown, page, modal, asked, made, partial>>

\* One call for each, in turn; a failure ends it, and the page is not told.
AddsOne(x, ok) ==
  /\ adding # None /\ x \in adding.left
  /\ IF ok THEN /\ store' = [store EXCEPT !.roots = @ \cup {x}] /\ adding' = [adding EXCEPT !.left = @ \ {x}] /\ partial' = partial
           ELSE /\ store' = store /\ adding' = None /\ partial' = TRUE
  /\ UNCHANGED <<shown, page, modal, asked, made, asks, overlapped>>

AddsDone ==
  /\ adding # None /\ adding.left = {} /\ adding' = None /\ shown' = [shown EXCEPT !.roots = store.roots]
  /\ modal' = IF modal # None /\ modal.kind = "discover" /\ modal.of = adding.of THEN None ELSE modal
  /\ UNCHANGED <<store, page, asked, made, asks, overlapped, partial>>

----------------------------------------------------------------------------
(* Environments and data sources.                                           *)

InEnvs == modal = None /\ page.section = "database"

PicksEnv(e) ==
  /\ InEnvs /\ page.edit = None /\ e \in shown.envs \ {page.env}
  /\ page' = [page EXCEPT !.env = e]
  /\ UNCHANGED <<store, shown, modal, kept>>

Rows == {s \in DOMAIN shown.sources : shown.sources[s] = page.env}

\* beginEdit: a new source, a row, or its credential; and back.
BeginsEdit(edit) ==
  /\ InEnvs /\ page.edit # edit
  /\ edit # None => page.edit = None /\ page.env # None /\ edit.source \in Rows \cup {None}
  /\ page' = [page EXCEPT !.edit = edit, !.error = FALSE]
  /\ UNCHANGED <<store, shown, modal, kept>>

\* The editor's save: the target environment is one of those shown, or the source's own.
SavesSource(e) ==
  /\ InEnvs /\ page.edit # None /\ page.edit.kind = "source" /\ e \in shown.envs
  /\ Ask([id |-> page.edit.source, op |-> "saveSource", on |-> "config", env |-> e, by |-> Page])
  /\ UNCHANGED <<page, modal>>

SetsCredential ==
  /\ InEnvs /\ page.edit # None /\ page.edit.kind = "credential"
  /\ Ask([id |-> page.edit.source, op |-> "setCredential", on |-> "config", env |-> None, by |-> Page])
  /\ UNCHANGED <<page, modal>>

RemovesSource(s) ==
  /\ InEnvs /\ page.edit = None /\ s \in Rows
  /\ Ask([id |-> s, op |-> "removeSource", on |-> "config", env |-> None, by |-> Page])
  /\ UNCHANGED <<page, modal>>

\* openEnvManager: on the active environment, or on a new one.
OpensManager(e) ==
  /\ InEnvs /\ page.edit = None /\ e \in {page.env, None} /\ modal' = [kind |-> "manager", selected |-> e, of |-> asks + 1]
  /\ UNCHANGED <<store, shown, page, kept>>

Managing == modal # None /\ modal.kind = "manager"

PicksTab(e) ==
  /\ Managing /\ e \in shown.envs \cup {None} /\ e # modal.selected /\ modal' = [modal EXCEPT !.selected = e]
  /\ UNCHANGED <<store, shown, page, kept>>

SavesEnv ==
  /\ Managing
  /\ Ask([id |-> modal.selected, op |-> "saveEnv", on |-> "config", env |-> None, by |-> modal.of])
  /\ UNCHANGED <<page, modal>>

RemovesEnv ==
  /\ Managing /\ modal.selected # None
  /\ Ask([id |-> modal.selected, op |-> "removeEnv", on |-> "config", env |-> None, by |-> modal.of])
  /\ UNCHANGED <<page, modal>>

ClosesModal == modal # None /\ modal' = None /\ UNCHANGED <<store, shown, page, kept>>

----------------------------------------------------------------------------
(* Answers.                                                                 *)

First(envs) == IF envs = {} THEN None ELSE CHOOSE e \in envs : \A f \in envs : e <= f

\* Mutant: the active environment stays, whether it is there or not.
KeepsEnv(env, envs) == IF env = None THEN First(envs) ELSE env

\* ensureActiveEnv
Ensured(env, envs) == IF env \in envs THEN env ELSE First(envs)

\* Mutant: the answer is taken only where the page still edits.
AdoptsEdited(view, st) == IF page.edit = None THEN view ELSE [view EXCEPT !.envs = st.envs, !.sources = st.sources]

Adopts(view, st) == [view EXCEPT !.envs = st.envs, !.sources = st.sources]


\* The error is shown, and the editor stays.
Failed == [page EXCEPT !.error = TRUE]

Managed(ask) == Managing /\ modal.of = ask.by

\* The environment the manager turns to: the one the answer added; after a removal the first.
Turned(ask, st) ==
  IF ask.op = "removeEnv" THEN First(st.envs)
  ELSE IF ask.id = None /\ st.envs \ shown.envs # {} THEN First(st.envs \ shown.envs) ELSE modal.selected

\* A refusal reaches a manager, or the list of patterns, as an unhandled rejection.
Answers(ask) ==
  /\ ask.answer # None /\ asked' = asked \ {ask}
  /\ IF ask.answer.st = None
     THEN /\ page' = IF ask.by = Page /\ ask.on # "patterns" THEN Failed ELSE page
          /\ UNCHANGED <<shown, modal>>
     ELSE IF ask.on \in Lists
     THEN /\ shown' = [shown EXCEPT ![ask.on] = ask.answer.st[ask.on]]
          /\ page' = IF ask.on = "patterns" THEN page ELSE [page EXCEPT !.error = FALSE]
          /\ UNCHANGED modal
     ELSE LET st == ask.answer.st
          IN  /\ shown' = Adopts(shown, st)
              /\ page' = IF ask.by = Page
                         THEN [page EXCEPT !.env = Ensured(@, st.envs), !.edit = None, !.error = FALSE]
                         ELSE [page EXCEPT !.env = Ensured(@, st.envs)]
              /\ modal' = IF Managed(ask) THEN [modal EXCEPT !.selected = Turned(ask, st)] ELSE modal
  /\ UNCHANGED <<store, adding, made, asks, overlapped, partial>>

Edits == [kind : {"source"}, source : (1 .. Ids) \cup {None}] \cup [kind : {"credential"}, source : 1 .. Ids]

Next ==
  \/ \E ask \in asked : Executes(ask) \/ Fails(ask) \/ Answers(ask)
  \/ \E s \in {"code", "approvals", "database"} : PicksSection(s)
  \/ \E l \in Lists, op \in {"add", "remove"}, x \in Items : ChangesList(l, op, x)
  \/ OpensDiscover \/ AddsDone \/ ClosesModal \/ SetsCredential \/ SavesEnv \/ RemovesEnv
  \/ \E xs \in SUBSET Items : AddsChosen(xs)
  \/ \E x \in Items, ok \in BOOLEAN : AddsOne(x, ok)
  \/ \E edit \in Edits \cup {None} : BeginsEdit(edit)
  \/ \E e \in (1 .. Ids) \cup {None} : PicksEnv(e) \/ SavesSource(e) \/ OpensManager(e) \/ PicksTab(e)
  \/ \E s \in 1 .. Ids : RemovesSource(s)

Spec == Init /\ [][Next]_vars

----------------------------------------------------------------------------
\* The shape of the page's state.
TypeOK ==
  /\ \A st \in {store, shown} : st.envs \subseteq 1 .. made /\ \A l \in Lists : st[l] \subseteq Items
  /\ page.section \in {"code", "approvals", "database"} /\ page.edit \in Edits \cup {None}
  /\ made \in 2 .. Ids /\ asks \in 0 .. Asks

\* Once everything is answered the page shows what the main process holds, whatever the user did
\* meanwhile: unless two changes were under way at a time (an older answer may come last), or
\* adding several repositories failed half way.
ShownIsStored == asked = {} /\ adding = None /\ ~overlapped /\ ~partial => shown = store

\* The page never stands on an environment it does not show, and stands on one while there is one.
EnvIsShown == IF shown.envs = {} THEN page.env = None ELSE page.env \in shown.envs

\* The page's promises together.
ConfigSound == ShownIsStored /\ EnvIsShown

\* An editor is never closed by a change that failed: what the user typed is not lost to an error.
FailureKeepsEditor == [][page.edit # None /\ page'.edit = None => ~page'.error]_vars
=============================================================================
