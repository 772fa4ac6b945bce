--------------------------- MODULE ModelSettings ---------------------------
(***************************************************************************)
(* The models page of the settings dialog, the models service behind it    *)
(* and the composer's pickers.  The page lists the built-in providers,     *)
(* configured or not, and the stored providers no preset stands for.  A    *)
(* provider is probed before it is saved; every call that changes the      *)
(* registry is answered with the whole of it, and the page is drawn anew.  *)
(***************************************************************************)
EXTENDS Naturals, Sequences, SequencesExt, FiniteSets

CONSTANTS
  Presets, \* the built-in providers, in catalog order
  Keys,    \* connections: a base URL with its key
  Asks,    \* bound: calls of a behaviour
  None     \* no key, no pick, no form, no error, no provider

VARIABLES
  store,      \* the registry of the main process
  view,       \* the service's registry
  explicit,   \* the model that was picked, also in localStorage
  selected,   \* the model the composer sends with
  page,       \* what the page keeps between two renderings
        \* an open picker, as it was built
  asked,      \* calls that have not been answered
  asks,       \* bound: calls so far; also the source of fresh ids
  verified,   \* history: connections proved as well as they could be
  overlapped, \* history: two answers were on their way at once
  twice       \* history: a provider was listed, or a preset set up, twice at once

vars == <<store, view, explicit, selected, page, asked, asks, verified, overlapped, twice>>

Model(id) == [id |-> id, enabled |-> TRUE, effort |-> None]
Provider(id, preset, key, models) == [id |-> id, preset |-> preset, key |-> key, models |-> models]
Known(v) == UNION {{m.id : m \in Range(p.models)} : p \in Range(v)}
ById(v, id) == LET at == SelectSeq(v, LAMBDA p : p.id = id) IN IF at = <<>> THEN None ELSE at[1]

----------------------------------------------------------------------------
(* modelsService.ts.                                                        *)

\* listEnabledModels: provider order, then priority order.
EnabledModels(v) == SelectSeq(FoldLeft(LAMBDA all, p : all \o p.models, <<>>, v), LAMBDA m : m.enabled)

\* The explicit pick while it is still enabled, else the first enabled model.
ResolveSelected(v, id) ==
  LET enabled == EnabledModels(v)
      picked == SelectSeq(enabled, LAMBDA m : m.id = id)
  IN  IF picked # <<>> THEN picked[1] ELSE IF enabled # <<>> THEN enabled[1] ELSE None

\* Mutant: the selection is told apart by its id alone.
SameModel(next, now) == IF next # None /\ now # None /\ next.id = now.id THEN now ELSE next

\* recomputeSelection: set when anything of it differs.
Recompute(next, now) == next

----------------------------------------------------------------------------
(* The catalog.                                                             *)

\* Mutant: a provider whose preset is no longer built in has no row.
PlainLegacy(p) == p.preset = None

\* A provider no built-in preset stands for.
Legacy(p) == p.preset \notin Range(Presets)

Row(key, preset, provider) == [key |-> key, preset |-> preset, provider |-> provider]

Catalog(v) ==
  [i \in 1 .. Len(Presets) |->
     LET of == SelectSeq(v, LAMBDA p : p.preset = Presets[i])
     IN  Row(<<"preset", Presets[i]>>, Presets[i], IF of = <<>> THEN None ELSE of[1])]
  \o LET legacy == SelectSeq(v, Legacy)
     IN  [i \in 1 .. Len(legacy) |-> Row(<<"provider", legacy[i].id>>, None, legacy[i])]

RowOf(v, key) == LET at == SelectSeq(Catalog(v), LAMBDA r : r.key = key) IN IF at = <<>> THEN None ELSE at[1]

\* The first configured row, else the first.
Landing(v) ==
  LET configured == SelectSeq(Catalog(v), LAMBDA r : r.provider # None)
  IN  IF configured # <<>> THEN configured[1].key ELSE Catalog(v)[1].key

\* render: a row that is gone gives way; every button and field is made anew.
Drawn(p, v) ==
  LET q == [p EXCEPT !.saving = FALSE]
  IN  IF RowOf(v, p.key) = None THEN [q EXCEPT !.key = Landing(v), !.mode = "detail"] ELSE q
Draw(p) == page' = Drawn(p, view)

Current == RowOf(view, page.key)
Shown == Current.provider
DetailShown == Shown # None /\ page.mode = "detail"
FormShown == ~DetailShown
AddShown == DetailShown /\ page.expanded = [provider |-> Shown.id, editing |-> None]

Fresh(key) ==
  [key |-> key, mode |-> "detail", expanded |-> None, error |-> FALSE, candidates |-> None,
   saving |-> FALSE]

Init ==
  /\ store = <<Provider(1, "gone", 1, <<Model(1), [Model(2) EXCEPT !.enabled = FALSE]>>)>>
  /\ view = store \* initialize
  /\ explicit = 2 /\ selected = ResolveSelected(view, explicit)
  /\ page = Fresh(Landing(view))
  /\ asked = {} /\ asks = 0 /\ verified = {1}
  /\ overlapped = FALSE /\ twice = FALSE

Request(op, provider, preset, key, model) ==
  [n |-> asks, op |-> op, provider |-> provider, preset |-> preset, key |-> key, model |-> model,
   at |-> "out", view |-> <<>>, conn |-> None]

Ask(q) ==
  /\ asks < Asks /\ asks' = asks + 1
  /\ asked' = asked \cup {q}

NoAsk == UNCHANGED <<asked, asks, twice>>
InPage == UNCHANGED <<store, view, explicit, selected, verified, overlapped>>

----------------------------------------------------------------------------
(* The page.                                                                *)

ClicksRow(key) ==
  /\ RowOf(view, key) # None
  /\ Draw([Fresh(key) EXCEPT !.candidates = page.candidates])
  /\ NoAsk /\ InPage

ClicksEdit ==
  /\ DetailShown
  /\ Draw([page EXCEPT !.mode = "form", !.expanded = None, !.error = FALSE])
  /\ NoAsk /\ InPage

CancelsForm ==
  /\ FormShown /\ Shown # None
  /\ Draw([page EXCEPT !.mode = "detail", !.error = FALSE])
  /\ NoAsk /\ InPage

\* submitProvider without a base URL, or a setup without a key.
SubmitsIncomplete ==
  /\ FormShown /\ ~page.saving
  /\ Draw([page EXCEPT !.error = TRUE])
  /\ NoAsk /\ InPage

\* A known chat model gives the verification probe something real to call.
ProbeModel(row) ==
  IF row.provider # None /\ row.provider.models # <<>> THEN row.provider.models[1].id
  ELSE IF row.preset # None THEN 0 ELSE None

\* submitProvider: a blank key of a stored provider keeps the stored one.
SubmitsProvider(key) ==
  /\ FormShown /\ ~page.saving /\ (key = None => Shown # None)
  /\ page' = [page EXCEPT !.saving = TRUE]
  /\ LET q == Request("verify", IF Shown = None THEN None ELSE Shown.id,
                      IF Shown = None THEN Current.preset ELSE Shown.preset, key, ProbeModel(Current))
     IN  /\ Ask(q)
         /\ twice' = (twice \/ \E r \in asked : r.op \in {"verify", "upsertProvider"}
                                                /\ r.provider = None /\ r.preset = q.preset)
  /\ InPage

\* openModelForm: the candidates that are there, or on their way, are kept.
OpensAdd ==
  /\ DetailShown /\ ~AddShown
  /\ LET kept == page.candidates # None /\ page.candidates.provider = Shown.id /\ page.candidates.status # "error"
         open == [page EXCEPT !.expanded = [provider |-> Shown.id, editing |-> None], !.error = FALSE]
     IN  IF kept THEN Draw(open) /\ NoAsk
         ELSE /\ Draw([open EXCEPT !.candidates = [provider |-> Shown.id, status |-> "loading", conn |-> None, of |-> None]])
              /\ Ask(Request("list", Shown.id, None, None, None))
              /\ twice' = (twice \/ \E r \in asked : r.op = "list" /\ r.provider = Shown.id)
  /\ InPage

TogglesEdit(m) ==
  /\ DetailShown
  /\ Draw([page EXCEPT !.error = FALSE,
       !.expanded = IF @ # None /\ @.editing = m THEN None ELSE [provider |-> Shown.id, editing |-> m]])
  /\ NoAsk /\ InPage

FormOpen(m) == DetailShown /\ page.expanded # None /\ page.expanded.editing = m /\ (m = None => AddShown)

CancelsModel(m) ==
  FormOpen(m) /\ Draw([page EXCEPT !.expanded = None, !.error = FALSE]) /\ NoAsk /\ InPage

SubmitsModelBlank(m) == FormOpen(m) /\ Draw([page EXCEPT !.error = TRUE]) /\ NoAsk /\ InPage

\* submitModel.
SubmitsModel(m) ==
  /\ FormOpen(m) /\ Ask(Request("upsertModel", Shown.id, None, None, m))
  /\ UNCHANGED <<page, twice>> /\ InPage

\* The buttons of the detail: Clear or Remove, the arrows, the toggle and Delete of a model.
Presses(op, m) ==
  /\ DetailShown /\ Ask(Request(op, Shown.id, None, None, m))
  /\ UNCHANGED <<page, twice>> /\ InPage

----------------------------------------------------------------------------
(* The pickers of the composer (modelPicker.ts).                            *)

\* An open menu keeps the models it was built with: one may be gone, or off, when it is picked.
OnMenus == Known(view) \cup Known(store) \cup {2}

\* setSelectedModel.
PicksModel(m) ==
  /\ m # explicit /\ explicit' = m
  /\ selected' = Recompute(ResolveSelected(view, m), selected)
  /\ UNCHANGED <<store, view, page, asked, asks, verified, overlapped, twice>>

PicksEffort(m) ==
  /\ Ask(Request("effort", None, None, None, m))
  /\ UNCHANGED <<store, view, explicit, selected, page, verified, overlapped, twice>>

----------------------------------------------------------------------------
(* The main process.                                                        *)

OnModels(v, Edit(_)) == [i \in 1 .. Len(v) |-> [v[i] EXCEPT !.models = Edit(@)]]
OnModel(v, m, Edit(_)) ==
  OnModels(v, LAMBDA ms : [k \in 1 .. Len(ms) |-> IF ms[k].id = m THEN Edit(ms[k]) ELSE ms[k]])

\* An unknown provider is created, with the models of its preset when it is set up.
UpsertProvider(v, q) ==
  IF ById(v, q.provider) # None
  THEN [i \in 1 .. Len(v) |-> IF v[i].id = q.provider /\ q.key # None THEN [v[i] EXCEPT !.key = q.key] ELSE v[i]]
  ELSE Append(v, Provider(10 + q.n, q.preset, q.key, IF q.provider = None THEN <<Model(10 + q.n)>> ELSE <<>>))

Edited(v, q) ==
  CASE q.op = "upsertProvider" -> UpsertProvider(v, q)
    [] q.op = "removeProvider" -> SelectSeq(v, LAMBDA p : p.id # q.provider)
    [] q.op = "upsertModel" ->
         [i \in 1 .. Len(v) |-> IF v[i].id = q.provider /\ q.model = None
                                THEN [v[i] EXCEPT !.models = Append(@, Model(10 + q.n))] ELSE v[i]]
    [] q.op = "removeModel" -> OnModels(v, LAMBDA ms : SelectSeq(ms, LAMBDA m : m.id # q.model))
    [] q.op = "toggle" -> OnModel(v, q.model, LAMBDA m : [m EXCEPT !.enabled = ~@])
    [] q.op = "effort" -> OnModel(v, q.model, LAMBDA m : [m EXCEPT !.effort = "high"])
    [] q.op = "moveUp" -> \* the last of two trades places with the first
         OnModels(v, LAMBDA ms : IF Len(ms) = 2 /\ ms[2].id = q.model THEN Reverse(ms) ELSE ms)

\* What a probe or a listing connects with: the form's key, else the stored one.
Connection(q) == IF q.key # None \/ ById(store, q.provider) = None THEN q.key ELSE ById(store, q.provider).key

\* Mutant: the list of models is taken as proof of the key.
ListIsProof(list, chat, model) == list = "served"

\* verifyProviderConnection: the list may be served to anyone or not at all; a one-token chat proves the
\* key, be it that only the request is refused, unless no model is known to chat with.
ProbePasses(list, chat, model) ==
  /\ list \in {"served", "missing"}
  /\ (list = "served" \/ model # None) => chat \in {"answered", "requestRefused"}

Mutating == {"upsertProvider", "removeProvider", "upsertModel", "removeModel", "toggle", "effort", "moveUp"}

\* A handler edits the registry and answers with it; one that throws leaves it.
Serves(q) ==
  /\ q.at = "out"
  /\ IF q.op \in Mutating
     THEN /\ store' = Edited(store, q)
          /\ asked' = (asked \ {q}) \cup {[q EXCEPT !.at = "back", !.view = Edited(store, q)]}
          /\ overlapped' = (overlapped \/ \E r \in asked : r.at = "back" /\ r.op \in Mutating)
     ELSE /\ q.op = "list" /\ Connection(q) # None
          /\ asked' = (asked \ {q}) \cup {[q EXCEPT !.at = "back", !.conn = Connection(q)]}
          /\ UNCHANGED <<store, overlapped>>
  /\ UNCHANGED <<view, explicit, selected, page, asks, verified, twice>>

\* The probe of the key, with what the provider answers.
Probes(q, list, chat) ==
  /\ q.at = "out" /\ q.op = "verify" /\ Connection(q) # None
  /\ ProbePasses(list, chat, q.model)
  /\ asked' = (asked \ {q}) \cup {[q EXCEPT !.at = "back", !.conn = Connection(q)]}
  /\ verified' = verified \cup (IF chat # "keyRefused" \/ (list = "missing" /\ q.model = None) THEN {Connection(q)} ELSE {})
  /\ UNCHANGED <<store, view, explicit, selected, page, asks, overlapped, twice>>

----------------------------------------------------------------------------
(* The answers.                                                             *)

\* Mutant: the candidates listed with the old connection stay.
KeepsCandidates(candidates) == candidates

\* The key or base URL may have changed: the candidates are listed again next time.
Forgets(candidates) == None

\* What the page makes of a saved form: it closes whatever form is open by now.
AfterSave(q) ==
  CASE q.op = "upsertProvider" ->
         [page EXCEPT !.mode = "detail", !.error = FALSE, !.candidates = Forgets(@)]
    [] q.op = "upsertModel" -> [page EXCEPT !.expanded = None, !.error = FALSE]
    [] OTHER -> page

\* updateRegistry, and the page drawn by it and by the form that was saved.
Answers(q) ==
  /\ q.at = "back" /\ q.op \in Mutating
  /\ asked' = asked \ {q} /\ view' = q.view
  /\ selected' = Recompute(ResolveSelected(q.view, explicit), selected)
  /\ page' = Drawn(AfterSave(q), q.view)
  /\ UNCHANGED <<store, explicit, asks, verified, overlapped, twice>>

\* The probe succeeded: only now the provider is saved.
Verified(q) ==
  /\ q.at = "back" /\ q.op = "verify"
  /\ asked' = (asked \ {q}) \cup {[q EXCEPT !.op = "upsertProvider", !.at = "out", !.conn = None]}
  /\ UNCHANGED <<store, view, explicit, selected, page, asks, verified, overlapped, twice>>

\* setModelCandidates: only of the provider they are for.
Awaited(q) == page.candidates # None /\ page.candidates.provider = q.provider

\* Drawn only while the form that offers them is open.
SetCandidates(q, status, conn) ==
  LET p == IF Awaited(q)
           THEN [page EXCEPT !.candidates = [@ EXCEPT !.status = status, !.conn = conn, !.of = q.provider]] ELSE page
  IN  page' = IF Awaited(q) /\ page.expanded = [provider |-> q.provider, editing |-> None] THEN Drawn(p, view) ELSE p

Listed(q) ==
  /\ q.at = "back" /\ q.op = "list" /\ asked' = asked \ {q} /\ SetCandidates(q, "ready", q.conn)
  /\ UNCHANGED <<asks, twice>> /\ InPage

\* A form's call that fails shows its error in the form that is open; the others fail unseen.
Fails(q) ==
  /\ q.at = "out" /\ asked' = asked \ {q}
  /\ CASE q.op = "list" -> SetCandidates(q, "error", None)
       [] q.op \in {"verify", "upsertProvider", "upsertModel"} -> Draw([page EXCEPT !.error = TRUE])
       [] OTHER -> UNCHANGED page
  /\ UNCHANGED <<asks, twice>> /\ InPage

ShownModels == IF Shown = None THEN {} ELSE {m.id : m \in Range(Shown.models)}

Next ==
  \/ \E r \in Range(Catalog(view)) : ClicksRow(r.key)
  \/ ClicksEdit \/ CancelsForm \/ SubmitsIncomplete \/ OpensAdd
  \/ \E key \in Keys \cup {None} : SubmitsProvider(key)
  \/ \E m \in ShownModels : TogglesEdit(m)
  \/ \E m \in ShownModels \cup {None} : CancelsModel(m) \/ SubmitsModelBlank(m) \/ SubmitsModel(m)
  \/ Presses("removeProvider", None)
  \/ \E m \in ShownModels, op \in {"removeModel", "toggle", "moveUp"} : Presses(op, m)
  \/ \E m \in OnMenus : PicksModel(m) \/ PicksEffort(m)
  \/ \E q \in asked : Serves(q) \/ Answers(q) \/ Verified(q) \/ Listed(q) \/ Fails(q)
  \/ \E q \in asked, list \in {"served", "missing"}, chat \in {"answered", "requestRefused", "keyRefused"} : Probes(q, list, chat)

Spec == Init /\ [][Next]_vars

----------------------------------------------------------------------------
TypeOK ==
  /\ {p.id : p \in Range(store)} \subseteq 1 .. 10 + Asks
  /\ page.mode \in {"detail", "form"} /\ {page.error, page.saving} \subseteq BOOLEAN
  /\ RowOf(view, page.key) # None
  /\ asks \in 0 .. Asks /\ Cardinality(asked) <= asks

\* What the service shows is what is stored once every call is answered, unless two answers were on their
\* way at once (the later one wins, whichever was made first).
ViewIsStored == (\A q \in asked : q.at = "out") /\ ~overlapped => view = store

\* The composer sends with the picked model while it is on offer, as it is stored now, else with the first.
SelectionHolds == selected = ResolveSelected(view, explicit)

\* Whatever the composer may offer can be found, and removed, in the settings: each provider has its row,
\* unless one preset was set up twice at once.
Reachable == ~twice => \A p \in Range(view) : \E r \in Range(Catalog(view)) : r.provider = p

\* Nothing is saved with a key that no chat has proved, unless there was no model to chat with.
StoredWasVerified == \A p \in Range(store) : p.key \in verified \cup {None}

\* The candidates on offer are those of the provider, listed with the connection it has now, unless they
\* were listed twice at once.
CandidatesAreCurrent ==
  page.candidates # None /\ page.candidates.status = "ready" /\ ~twice
  /\ (\A q \in asked : q.op # "upsertProvider") =>
    /\ page.candidates.of = page.candidates.provider
    /\ LET p == ById(store, page.candidates.provider) IN p # None => page.candidates.conn = p.key

\* The models page's promises together.
ModelSettingsSound == ViewIsStored /\ SelectionHolds /\ Reachable /\ StoredWasVerified /\ CandidatesAreCurrent
=============================================================================
