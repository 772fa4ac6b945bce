---------------------------- MODULE DataSources ----------------------------
(***************************************************************************)
(* A project's environments and data sources in the workspace's            *)
(* project.json (workspaceConfigStorage.ts), their secrets in the app's    *)
(* credentials.json (credentialStorage.ts), and the IPC handlers that      *)
(* write one and then the other (environmentsIpc.ts).  A file is replaced  *)
(* in one step: the race for its .tmp, which can leave a file nobody can   *)
(* read, is the one of ModelRegistry, and what overlaps is exempt here too.*)
(***************************************************************************)
EXTENDS Naturals

CONSTANTS
  Environments, \* SEED_ENVIRONMENTS
  Sources,      \* data sources
  Jobs,         \* handlers that may be under way at once
  Starts,       \* bound: handlers of a behaviour
  None,         \* no file
  Locked        \* a credentials.json this machine's keychain cannot decrypt

VARIABLES
  config,     \* project.json: its environments, and the environment of each source
  secrets,    \* credentials.json: the sources that have one
  job,        \* per handler: how far it is, its request, what it read, the secrets it will write
  started,    \* bound: handlers so far
  serial,     \* history: both stores, had the handlers run one after the other
  overlapped  \* history: two handlers ran at a time, or one was cut short

vars == <<config, secrets, job, started, serial, overlapped>>

\* Every source of a configuration is in one of its environments.
Configs ==
  {c \in [envs : SUBSET Environments, sources : UNION {[S -> Environments] : S \in SUBSET Sources}] :
     \A s \in DOMAIN c.sources : c.sources[s] \in c.envs}

\* A file that is not there, or cannot be decrypted, is not one with some content.
Shared == None \notin Configs /\ \A kept \in SUBSET Sources : Locked # kept

Config(envs, sources) == [envs |-> envs, sources |-> sources]
Empty == Config({}, [s \in {} |-> None])
Secrets == [source : Sources, op : {"set", "delete"}]
Secret(source, op) == [source |-> source, op |-> op]
Handler(pc, ask, seen, todo, read) ==
  [pc |-> pc, ask |-> ask, seen |-> seen, todo |-> todo, read |-> read]
Rest == Handler("done", [op |-> "none"], Empty, {}, {})

Init ==
  /\ config = None /\ secrets = {}
  /\ job = [j \in Jobs |-> Rest] /\ started = 0
  /\ serial = [config |-> None, secrets |-> {}] /\ overlapped = FALSE

\* readWorkspaceConfig: no file is an empty configuration.
Read(file) == IF file = None THEN Empty ELSE file

\* Mutant: the sources of an environment that is gone stay.
KeepOrphans(c) == c

\* normalizeConfig: a source whose environment vanished is dropped.
Normalize(c) ==
  Config(c.envs, [s \in {x \in DOMAIN c.sources : c.sources[x] \in c.envs} |-> c.sources[s]])

With(f, s, e) == [x \in DOMAIN f \cup {s} |-> IF x = s THEN e ELSE f[x]]
Without(f, s) == [x \in DOMAIN f \ {s} |-> f[x]]

\* What a handler makes of the configuration it read.
Edited(ask, file) ==
  LET c == Read(file)
  IN  CASE ask.op = "get" -> IF file = None THEN Config(Environments, Empty.sources) ELSE c
        [] ask.op = "upsertEnvironment" -> Normalize(Config(c.envs \cup {ask.env}, c.sources))
        [] ask.op = "removeEnvironment" -> Normalize(Config(c.envs \ {ask.env}, c.sources))
        [] ask.op = "upsertDataSource" -> 
             Normalize(Config(c.envs, With(c.sources, ask.source, ask.env)))
        [] ask.op = "removeDataSource" -> Normalize(Config(c.envs, Without(c.sources, ask.source)))
        [] ask.op = "setCredential" -> c

\* Is the file written at all: a read finds it there, an unknown environment throws.
Writes(ask, file) ==
  CASE ask.op = "get" -> file = None
    [] ask.op = "upsertDataSource" -> ask.env \in Read(file).envs
    [] ask.op = "setCredential" -> FALSE
    [] OTHER -> TRUE

\* The secrets a handler goes on to: purged with their sources, or the one that was typed in.
Owed(ask, file) ==
  LET gone == DOMAIN Read(file).sources \ DOMAIN Edited(ask, file).sources
  IN  CASE ask.op = "removeEnvironment" -> {Secret(s, "delete") : s \in gone}
        [] ask.op = "removeDataSource" -> {Secret(ask.source, "delete")}
        [] ask.op = "upsertDataSource" /\ Writes(ask, file) /\ ask.typed -> {Secret(ask.source, "set")}
        [] ask.op = "setCredential" /\ ask.source \in DOMAIN Read(file).sources ->
             {Secret(ask.source, IF ask.typed THEN "set" ELSE "delete")}
        [] OTHER -> {}

Requests ==
  [op : {"get"}]
  \cup [op : {"upsertEnvironment", "removeEnvironment"}, env : Environments]
  \cup [op : {"upsertDataSource"}, source : Sources, env : Environments, typed : BOOLEAN]
  \cup [op : {"removeDataSource"}, source : Sources]
  \cup [op : {"setCredential"}, source : Sources, typed : BOOLEAN]

\* setCredential, deleteCredential: a secret with no field prunes its entry.
Applied(todo, all) ==
  {s \in all : Secret(s, "delete") \notin todo} \cup {t.source : t \in {u \in todo : u.op = "set"}}

\* readAll: what cannot be decrypted is no secret at all.
ReadAll == IF secrets = Locked THEN {} ELSE secrets

Idle == \A j \in Jobs : job[j].pc = "done"

\* The handler reads the configuration; nothing to write ends it or takes it to the secrets.
Start(j, ask) ==
  /\ job[j].pc = "done" /\ started < Starts
  /\ started' = started + 1
  /\ job' = [job EXCEPT ![j] =
       IF Writes(ask, config) \/ Owed(ask, config) # {}
       THEN Handler(IF Writes(ask, config) THEN "read" ELSE "secrets", ask,
                    Edited(ask, config), Owed(ask, config), {})
       ELSE Rest]
  /\ serial' = [config |-> IF Writes(ask, serial.config) THEN Edited(ask, serial.config) ELSE serial.config,
                secrets |-> Applied(Owed(ask, serial.config), serial.secrets)]
  /\ overlapped' = (overlapped \/ ~Idle)
  /\ UNCHANGED <<config, secrets>>

WriteConfig(j) ==
  /\ job[j].pc = "read"
  /\ config' = job[j].seen
  /\ job' = [job EXCEPT ![j] = IF @.todo = {} THEN Rest ELSE Handler("secrets", @.ask, @.seen, @.todo, {})]
  /\ UNCHANGED <<secrets, started, serial, overlapped>>

ReadSecrets(j) ==
  /\ job[j].pc = "secrets"
  /\ job' = [job EXCEPT ![j] = Handler("decrypted", @.ask, @.seen, @.todo, ReadAll)]
  /\ UNCHANGED <<config, secrets, started, serial, overlapped>>

\* One read, edit and write per secret; a delete of what is not there writes nothing.
WriteSecret(j) ==
  /\ job[j].pc = "decrypted"
  /\ \E t \in job[j].todo :
       /\ secrets' = IF t.op = "delete" /\ t.source \notin job[j].read THEN secrets
                     ELSE Applied({t}, job[j].read)
       /\ job' = [job EXCEPT ![j] = IF @.todo = {t} THEN Rest
                                    ELSE Handler("secrets", @.ask, @.seen, @.todo \ {t}, {})]
  /\ UNCHANGED <<config, started, serial, overlapped>>

\* The process dies between two writes.
Crash ==
  /\ ~Idle
  /\ job' = [j \in Jobs |-> Rest] /\ overlapped' = TRUE
  /\ UNCHANGED <<config, secrets, started, serial>>

\* The keychain is reset: no secret can be read, and the next write keeps only its own.
KeychainReset ==
  /\ Idle /\ secrets \notin {{}, Locked}
  /\ secrets' = Locked /\ serial' = [serial EXCEPT !.secrets = {}]
  /\ UNCHANGED <<config, job, started, overlapped>>

Next ==
  \/ \E j \in Jobs : \/ \E ask \in Requests : Start(j, ask)
                     \/ WriteConfig(j) \/ ReadSecrets(j) \/ WriteSecret(j)
  \/ Crash \/ KeychainReset

Spec == Init /\ [][Next]_vars

----------------------------------------------------------------------------

TypeOK ==
  /\ started \in 0..Starts
  /\ secrets = Locked \/ secrets \subseteq Sources
  /\ \A j \in Jobs : job[j].pc \in {"done", "read", "secrets", "decrypted"}

\* Whatever overlaps or is cut short, no source is left without its environment; and when no
\* handler ever overlapped another, both stores hold what the handlers did in turn: no
\* secret outlives its source, none is lost to an edit that typed none, and environments
\* the user removed are never seeded again.
SourcesKept ==
  /\ \A s \in DOMAIN Read(config).sources : Read(config).sources[s] \in Read(config).envs
  /\ ~overlapped /\ Idle =>
       /\ config = serial.config /\ ReadAll = serial.secrets
       /\ ReadAll \subseteq DOMAIN Read(config).sources
=============================================================================
