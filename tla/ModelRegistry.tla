--------------------------- MODULE ModelRegistry ---------------------------
(***************************************************************************)
(* models.json (modelConfigStorage.ts): providers in order, each with its  *)
(* key and its models in order of priority.  Every IPC handler reads the   *)
(* file, edits what it read, opens and truncates models.json.tmp, writes   *)
(* to it and renames it; no lock orders two handlers, and they share the   *)
(* one .tmp.                                                               *)
(***************************************************************************)
EXTENDS Naturals, SequencesExt

CONSTANTS
  Seed,    \* the registry that is there at first
  Given,   \* how many ids it uses, of providers and of models
  Keys,    \* API keys
  Efforts, \* reasoning efforts
  Asked,   \* the numbers of the ids the window asks about
  Jobs,    \* IPC handlers that may be under way at once
  Starts,  \* bound: handlers of a behaviour
  None     \* no key, no effort, no model

VARIABLES
  models,    \* models.json
  tmp,       \* models.json.tmp
  job,       \* per handler: how far it is, its request, what it read, the number of a new id,
             \* and the name that the file it opened has by now
  started,   \* bound: handlers so far; also the source of fresh ids
  serial,    \* history: the registry, had the handlers run one after the other
  overlapped \* history: two handlers were between read and rename

vars == <<models, tmp, job, started, serial, overlapped>>

P(i) == <<"p", i>>
M(i) == <<"m", i>>
Model(id, enabled, effort) == [id |-> id, enabled |-> enabled, effort |-> effort]
Provider(id, key, ms) == [id |-> id, key |-> key, models |-> ms]

\* A file: its providers, and the entry of which a field went bad (0: none).
File(kind, list, bad) == [kind |-> kind, list |-> list, bad |-> bad]
Stored(reg) == File("registry", reg, 0)
NoFile == File("none", <<>>, 0)
Emptied == File("empty", <<>>, 0)
Damaged == File("damaged", <<>>, 0)
Handler(pc, ask, seen, fresh, fd) ==
  [pc |-> pc, ask |-> ask, seen |-> seen, fresh |-> fresh, fd |-> fd]
Rest == Handler("done", [op |-> "none"], <<>>, 0, "closed")

Init ==
  /\ \/ models = Stored(Seed) /\ serial = Seed
     \/ models = NoFile /\ serial = <<>>
  /\ tmp = NoFile
  /\ job = [j \in Jobs |-> Rest]
  /\ started = 0 /\ overlapped = FALSE

Has(list, id) == \E i \in 1..Len(list) : list[i].id = id
At(list, id) == CHOOSE i \in 1..Len(list) : list[i].id = id

\* filter by id: no id is there twice.
Removed(list, id) == IF Has(list, id) THEN RemoveAt(list, At(list, id)) ELSE list

\* parseProvider: an entry with a bad field disappears.
Valid(file) == IF file.bad = 0 THEN file.list ELSE RemoveAt(file.list, file.bad)

\* readRegistry: no file or one that does not parse is an empty registry.
Parsed(file) == IF file.kind = "registry" THEN Valid(file) ELSE <<>>
Read == Parsed(models)

\* moveModel: trades places with its neighbour of the same provider, at the edge nothing.
Moved(ms, m, up) ==
  LET i == At(ms, m)
      j == IF up THEN i - 1 ELSE i + 1
  IN  IF j \in 1..Len(ms)
      THEN [k \in 1..Len(ms) |-> CASE k = i -> ms[j] [] k = j -> ms[i] [] OTHER -> ms[k]] ELSE ms

\* Mutant: an edit of a provider takes the key of the form, which is empty when unchanged.
KeyOfForm(form, stored) == form

\* upsertProvider: an empty key in the form leaves the stored key.
KeyKept(form, stored) == IF form = None THEN stored ELSE form

\* normalizeModel: an edit replaces the parameters and leaves the rest, a new model is enabled.
Normalized(ask, ms, fresh) ==
  IF Has(ms, ask.model)
  THEN [k \in 1..Len(ms) |-> IF ms[k].id = ask.model
                             THEN Model(ms[k].id, ms[k].enabled, ask.effort) ELSE ms[k]]
  ELSE Append(ms, Model(M(Given + fresh), TRUE, ask.effort))

\* What becomes of the models of one provider.
ModelsEdited(ask, ms) ==
  CASE ask.op = "removeModel" -> Removed(ms, ask.id)
    [] ask.op = "setEnabled" ->
         [k \in 1..Len(ms) |-> IF ms[k].id = ask.id THEN Model(ms[k].id, ask.to, ms[k].effort) ELSE ms[k]]
    [] ask.op = "setEffort" ->
         [k \in 1..Len(ms) |-> IF ms[k].id = ask.id THEN Model(ms[k].id, ms[k].enabled, ask.to) ELSE ms[k]]
    [] ask.op = "move" -> IF Has(ms, ask.id) THEN Moved(ms, ask.id, ask.to) ELSE ms

\* What becomes of one provider.
ProviderEdited(ask, p, fresh) ==
  CASE ask.op = "upsertProvider" ->
         IF p.id = ask.id THEN Provider(p.id, KeyKept(ask.key, p.key), p.models) ELSE p
    [] ask.op = "upsertModel" ->
         IF p.id = ask.id THEN Provider(p.id, p.key, Normalized(ask, p.models, fresh)) ELSE p
    [] ask.op \in {"removeModel", "setEnabled", "setEffort", "move"} ->
         Provider(p.id, p.key, ModelsEdited(ask, p.models))

\* What a handler makes of the registry it read; the registry itself when it throws or returns.
Edited(ask, reg, fresh) ==
  IF ask.op = "removeProvider" THEN Removed(reg, ask.id)
  ELSE IF ask.op = "upsertProvider" /\ ~Has(reg, ask.id)
       THEN Append(reg, Provider(P(Given + fresh), ask.key, <<>>))
       ELSE [i \in 1..Len(reg) |-> ProviderEdited(ask, reg[i], fresh)]

\* An id nothing has is a form without one.
AskedProviders == {P(i) : i \in Asked}
AskedModels == {M(i) : i \in Asked}
Requests ==
  [op : {"upsertProvider"}, id : AskedProviders, key : Keys \cup {None}]
  \cup [op : {"removeProvider"}, id : AskedProviders]
  \cup [op : {"upsertModel"}, id : AskedProviders, model : AskedModels, effort : Efforts \cup {None}]
  \cup [op : {"removeModel"}, id : AskedModels]
  \cup [op : {"setEnabled", "move"}, id : AskedModels, to : BOOLEAN]
  \cup [op : {"setEffort"}, id : AskedModels, to : Efforts \cup {None}]

\* The handler reads; upsertModel throws for an unknown provider, a move at the edge returns.
Start(j, ask) ==
  /\ job[j].pc = "done" /\ started < Starts
  /\ started' = started + 1
  /\ LET throws == ask.op = "upsertModel" /\ ~Has(Read, ask.id)
         still == ask.op = "move" /\ Edited(ask, Read, started') = Read
     IN  job' = [job EXCEPT ![j] = IF throws \/ still THEN Rest
                                   ELSE Handler("read", ask, Read, started', "closed")]
  /\ serial' = Edited(ask, serial, started')
  /\ overlapped' = (overlapped \/ \E i \in Jobs : job[i].pc # "done")
  /\ UNCHANGED <<models, tmp>>

\* writeRegistry: writeFile opens the one .tmp and empties it, whoever else is at it.
OpenTmp(j) ==
  /\ job[j].pc = "read"
  /\ tmp' = Emptied
  /\ job' = [job EXCEPT ![j] = Handler("opened", @.ask, @.seen, @.fresh, "tmp")]
  /\ UNCHANGED <<models, started, serial, overlapped>>

\* What a file holds once a text is written from its start: over the text of another
\* handler a longer one's tail may be left, and nothing parses.
Overwritten(file, text) == IF file = Emptied THEN {text} ELSE {text, Damaged}

\* The whole registry goes into the file that was opened, under whatever name it has by now.
WriteTmp(j) ==
  LET text == Stored(Edited(job[j].ask, job[j].seen, job[j].fresh))
  IN  /\ job[j].pc = "opened"
      /\ \/ job[j].fd = "tmp" /\ tmp' \in Overwritten(tmp, text) /\ UNCHANGED models
         \/ job[j].fd = "models" /\ models' \in Overwritten(models, text) /\ UNCHANGED tmp
         \/ job[j].fd = "gone" /\ UNCHANGED <<models, tmp>>
      /\ job' = [job EXCEPT ![j] = Handler("written", @.ask, @.seen, @.fresh, "closed")]
      /\ UNCHANGED <<started, serial, overlapped>>

\* An open file stays open when it is renamed, or replaced by one that is.
Followed(h) ==
  IF h.pc = "opened"
  THEN Handler("opened", h.ask, h.seen, h.fresh, IF h.fd = "tmp" THEN "models" ELSE "gone") ELSE h

\* The rename takes whatever .tmp now holds, emptied or half another's; without one it throws.
Rename(j) ==
  /\ job[j].pc = "written"
  /\ IF tmp = NoFile
     THEN job' = [job EXCEPT ![j] = Rest] /\ UNCHANGED <<models, tmp>>
     ELSE /\ models' = tmp /\ tmp' = NoFile
          /\ job' = [i \in Jobs |-> IF i = j THEN Rest ELSE Followed(job[i])]
  /\ UNCHANGED <<started, serial, overlapped>>

\* The process dies: what was under way is gone, a .tmp stays.
Crash ==
  /\ \E j \in Jobs : job[j].pc # "done"
  /\ job' = [j \in Jobs |-> Rest]
  /\ serial' = Read
  /\ UNCHANGED <<models, tmp, started, overlapped>>

\* models.json is edited by hand while no handler runs: a field goes bad, or the whole file.
Damage(file) ==
  /\ models.kind = "registry" /\ \A j \in Jobs : job[j].pc = "done"
  /\ models' = file
  /\ serial' = Parsed(file)
  /\ UNCHANGED <<tmp, job, started, overlapped>>

Next ==
  \/ \E j \in Jobs : \/ \E ask \in Requests : Start(j, ask)
                     \/ OpenTmp(j) \/ WriteTmp(j) \/ Rename(j)
  \/ Crash
  \/ started = 0 /\ Damage(Damaged)
  \/ started = 0 /\ models.bad = 0 /\ \E i \in 1..Len(models.list) : Damage(File("registry", models.list, i))

Spec == Init /\ [][Next]_vars

----------------------------------------------------------------------------

\* No provider and no model is there twice.
Distinct(reg) ==
  /\ \A i, k \in 1..Len(reg) : reg[i].id = reg[k].id => i = k
  /\ \A i, k \in 1..Len(reg) : \A a \in 1..Len(reg[i].models), b \in 1..Len(reg[k].models) :
       reg[i].models[a].id = reg[k].models[b].id => i = k /\ a = b

\* The registry at first, and the ids it uses.
Sown ==
  /\ Given \in Nat /\ Distinct(Seed)
  /\ Seed \in Seq([id : {P(i) : i \in 1..Given}, key : Keys \cup {None},
                   models : Seq([id : {M(i) : i \in 1..Given}, enabled : BOOLEAN,
                                 effort : Efforts \cup {None}])])

TypeOK ==
  /\ started \in 0..Starts
  /\ \A j \in Jobs : job[j].pc \in {"done", "read", "opened", "written"}

\* Handlers that do not overlap lose nothing: when none is under way the file holds what
\* they did one after the other, a key the form left empty included; what a hand damaged is
\* gone from then on, and nothing beside it.
SerialHandlersKeep ==
  ~overlapped /\ (\A j \in Jobs : job[j].pc = "done") => Read = serial

\* Whatever overlaps, what can be read holds no model and no provider twice, and a model
\* stays with its provider; a provider that had a key has one, since no request can clear it.
\* Handlers that overlap may lose requests, and all the rest too: the one renames the .tmp the
\* other has just emptied, or two texts are left in one file, and models.json reads as no
\* registry at all, which is what the next handler then writes.
RegistryWhole ==
  /\ Distinct(Read)
  /\ \A i \in 1..Len(Read), s \in 1..Len(Seed) :
       /\ Read[i].id = Seed[s].id /\ Seed[s].key # None => Read[i].key # None
       /\ \A a \in 1..Len(Read[i].models), b \in 1..Len(Seed[s].models) :
            Read[i].models[a].id = Seed[s].models[b].id => Read[i].id = Seed[s].id

RegistryKept == SerialHandlersKeep /\ RegistryWhole
=============================================================================
