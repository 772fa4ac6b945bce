--------------------------- MODULE MCMainProcess ---------------------------
(***************************************************************************)
(* The services of the main process.  They share no state, so an           *)
(* interleaving of two of them shows nothing that neither shows alone:     *)
(* focus picks the one service a behaviour runs, and the others stay at    *)
(* their initial state.                                                    *)
(* Services with a proof module of their own are taken from it (AP, LS,    *)
(* and SP for the four stores), so that its theorems apply to them here.   *)
(***************************************************************************)
EXTENDS Naturals, Sequences, FiniteSets

CONSTANTS
  None, Torn,
  \* Approvals
  Sessions, Tokens, Saves, Smuggled, MaxAnswers,
  \* LanguageServers
  ServerCalls, Languages, SourceFiles, LanguageOf, ServerProcesses, Retries,
  \* ArtifactsIndex
  Messages, Media, Records, SessionOf, SessionFiles, Jobs,
  \* RunLog
  LoggedRuns, LoggedTools, LastDay, LoggedPerRun, QueueLimit, BufferLimit, Trouble,
  \* HookCommands
  Entries, Threshold, HookTurns,
  \* WorkDigest
  DigestFiles, Facts, MaxFiles, MaxFacts, DigestRuns, DigestPerRun,
  \* OutputPrune
  Sizes, Width, PruneTurns, Protect, Quantum,
  \* ModelStream
  Blocks, Fragments, Replies,
  \* ToolCommands
  ToolCalls, MaxOutput, Chunks, Whole,
  \* SubAgents
  SpawnCalls, MaxTurns, Deltas,
  \* ModelRegistry
  RegistrySeed, RegistryIds, ApiKeys, Efforts, AskedIds, RegistryStarts,
  \* DataSources
  SeedEnvironments, SourceNames, Locked,
  \* CodeRoots
  CodeDirs, FoundDirs, DirOrigin, RepoUrls,
  \* SkillFiles
  SkillNames, SkillCalls,
  \* The handlers of the last four
  StoreJobs, StoreStarts,
  \* Names in the values below
  ts, py, f1, f2

VARIABLES
  focus,
  \* Approvals
  allowlist, seeded, inode, approvals, tmp, save, answers, lasting, disturbed,
  \* LanguageServers
  servers, server, open, serverCall, over, sent, raced,
  \* ArtifactsIndex
  stored, superseded, deleted, index, torn, pending, job, recorded, restored,
  \* RunLog
  day, loggingMode, sinks, queue, buffer, daily, latest, runsIndex, logger, troubles, kept, lost,
  overnight,
  \* HookCommands
  loaded, streaks, armed, fire, command, turn, ended, reminded,
  \* WorkDigest
  carried, digest, run, digestNamed,
  \* OutputPrune
  results, turns, pruned, aged,
  \* ModelStream
  format, streamNamed, reply, line, acc, events, state, history, round,
  \* ToolCommands
  stopped, call,
  \* SubAgents
  childStopped, loop, fold, records,
  \* ModelRegistry
  models, modelTmp, modelJob, modelStarted, modelSerial, modelOverlapped,
  \* DataSources
  config, secrets, sourceJob, sourceStarted, sourceSerial, sourceOverlapped,
  \* CodeRoots
  rootProject, home, rootDisk, rootJob, rootStarted, ready, rootSerial, rootOverlapped, broken,
  \* SkillFiles
  files, skillView, editing, error, skillAsked, skillAsks, mentions, promised, skillDisturbed

AP == INSTANCE ApprovalsProofs
LS == INSTANCE LanguageServersProofs WITH
        Calls <- ServerCalls, Files <- SourceFiles, Children <- ServerProcesses,
        child <- server, call <- serverCall
AI == INSTANCE ArtifactsIndex
RL == INSTANCE RunLog WITH
        Runs <- LoggedRuns, Tools <- LoggedTools, PerRun <- LoggedPerRun
HC == INSTANCE HookCommands WITH Turns <- HookTurns, child <- command
WD == INSTANCE WorkDigest WITH
        Files <- DigestFiles, Runs <- DigestRuns, PerRun <- DigestPerRun, named <- digestNamed
OP == INSTANCE OutputPrune WITH Turns <- PruneTurns
ST == INSTANCE ModelStream WITH named <- streamNamed
TC == INSTANCE ToolCommands WITH Calls <- ToolCalls
SA == INSTANCE SubAgents WITH Children <- SpawnCalls, stopped <- childStopped
SP == INSTANCE StoresProofs

\* The hypotheses of the theorems about ten of the services.
ASSUME MainProcessAssumption ==
  /\ AP!Distinct /\ LS!Consistent /\ TC!Amounts /\ SA!Labelled /\ HC!Registered /\ AI!Separate
  /\ SP!MR!Sown /\ SP!DS!Shared /\ SP!CR!Scanned /\ SP!SK!Slugged

Services == {"approvals", "servers", "artifacts", "log", "hooks", "digest", "prune", "stream",
             "commands", "children", "models", "sources", "roots", "skills"}

approvalVars == <<allowlist, seeded, inode, approvals, tmp, save, answers, lasting, disturbed>>
serverVars == <<servers, server, open, serverCall, over, sent, raced>>
artifactVars == <<stored, superseded, deleted, index, torn, pending, job, recorded, restored>>
logVars == <<day, loggingMode, sinks, queue, buffer, daily, latest, runsIndex, logger, troubles,
  kept, lost, overnight>>
hookVars == <<loaded, streaks, armed, fire, command, turn, ended, reminded>>
digestVars == <<carried, digest, run, digestNamed>>
pruneVars == <<results, turns, pruned, aged>>
streamVars == <<format, streamNamed, reply, line, acc, events, state, history, round>>
commandVars == <<stopped, call>>
childVars == <<childStopped, loop, fold, records>>
modelVars == <<models, modelTmp, modelJob, modelStarted, modelSerial, modelOverlapped>>
sourceVars == <<config, secrets, sourceJob, sourceStarted, sourceSerial, sourceOverlapped>>
rootVars == <<rootProject, home, rootDisk, rootJob, rootStarted, ready, rootSerial,
  rootOverlapped, broken>>
skillVars == <<files, skillView, editing, error, skillAsked, skillAsks, mentions, promised,
  skillDisturbed>>
vars == <<focus, approvalVars, serverVars, artifactVars, logVars, hookVars, digestVars,
  pruneVars, streamVars, commandVars, childVars, modelVars, sourceVars, rootVars, skillVars>>

Init ==
  /\ focus \in Services
  /\ AP!Init /\ LS!Init /\ AI!Init /\ RL!Init /\ HC!Init /\ WD!Init /\ OP!Init /\ ST!Init
  /\ TC!Init /\ (focus = "commands" \/ \A c \in ToolCalls : call[c].kind = "bash")
  /\ SA!Init
  /\ SP!MR!Init /\ (focus = "models" \/ models = SP!MR!NoFile)
  /\ SP!DS!Init /\ SP!CR!Init /\ SP!SK!Init

\* A step of one part leaves the others alone.
Next ==
  \/ focus = "approvals" /\ AP!Next /\ UNCHANGED <<focus, serverVars, artifactVars, logVars,
       hookVars, digestVars, pruneVars, streamVars, commandVars, childVars, modelVars, sourceVars,
       rootVars, skillVars>>
  \/ focus = "servers" /\ LS!Next /\ UNCHANGED <<focus, approvalVars, artifactVars, logVars,
       hookVars, digestVars, pruneVars, streamVars, commandVars, childVars, modelVars, sourceVars,
       rootVars, skillVars>>
  \/ focus = "artifacts" /\ AI!Next /\ UNCHANGED <<focus, approvalVars, serverVars, logVars,
       hookVars, digestVars, pruneVars, streamVars, commandVars, childVars, modelVars, sourceVars,
       rootVars, skillVars>>
  \/ focus = "log" /\ RL!Next /\ UNCHANGED <<focus, approvalVars, serverVars, artifactVars,
       hookVars, digestVars, pruneVars, streamVars, commandVars, childVars, modelVars, sourceVars,
       rootVars, skillVars>>
  \/ focus = "hooks" /\ HC!Next /\ UNCHANGED <<focus, approvalVars, serverVars, artifactVars,
       logVars, digestVars, pruneVars, streamVars, commandVars, childVars, modelVars, sourceVars,
       rootVars, skillVars>>
  \/ focus = "digest" /\ WD!Next /\ UNCHANGED <<focus, approvalVars, serverVars, artifactVars,
       logVars, hookVars, pruneVars, streamVars, commandVars, childVars, modelVars, sourceVars,
       rootVars, skillVars>>
  \/ focus = "prune" /\ OP!Next /\ UNCHANGED <<focus, approvalVars, serverVars, artifactVars,
       logVars, hookVars, digestVars, streamVars, commandVars, childVars, modelVars, sourceVars,
       rootVars, skillVars>>
  \/ focus = "stream" /\ ST!Next /\ UNCHANGED <<focus, approvalVars, serverVars, artifactVars,
       logVars, hookVars, digestVars, pruneVars, commandVars, childVars, modelVars, sourceVars,
       rootVars, skillVars>>
  \/ focus = "commands" /\ TC!Next /\ UNCHANGED <<focus, approvalVars, serverVars, artifactVars,
       logVars, hookVars, digestVars, pruneVars, streamVars, childVars, modelVars, sourceVars,
       rootVars, skillVars>>
  \/ focus = "children" /\ SA!Next /\ UNCHANGED <<focus, approvalVars, serverVars, artifactVars,
       logVars, hookVars, digestVars, pruneVars, streamVars, commandVars, modelVars, sourceVars,
       rootVars, skillVars>>
  \/ focus = "models" /\ SP!MR!Next /\ UNCHANGED <<focus, approvalVars, serverVars, artifactVars,
       logVars, hookVars, digestVars, pruneVars, streamVars, commandVars, childVars, sourceVars,
       rootVars, skillVars>>
  \/ focus = "sources" /\ SP!DS!Next /\ UNCHANGED <<focus, approvalVars, serverVars, artifactVars,
       logVars, hookVars, digestVars, pruneVars, streamVars, commandVars, childVars, modelVars,
       rootVars, skillVars>>
  \/ focus = "roots" /\ SP!CR!Next /\ UNCHANGED <<focus, approvalVars, serverVars, artifactVars,
       logVars, hookVars, digestVars, pruneVars, streamVars, commandVars, childVars, modelVars,
       sourceVars, skillVars>>
  \/ focus = "skills" /\ SP!SK!Next /\ UNCHANGED <<focus, approvalVars, serverVars, artifactVars,
       logVars, hookVars, digestVars, pruneVars, streamVars, commandVars, childVars, modelVars,
       sourceVars, rootVars>>

\* Only the services with child processes owe answers.
Fairness ==
  \/ focus = "servers" /\ LS!Fairness
  \/ focus = "hooks" /\ HC!Fairness
  \/ focus = "commands" /\ TC!Fairness
  \/ focus \notin {"servers", "hooks", "commands"}

Spec == Init /\ [][Next]_vars /\ Fairness

----------------------------------------------------------------------------
TypeOK ==
  /\ focus = "approvals" => AP!TypeOK
  /\ focus = "servers" => LS!TypeOK
  /\ focus = "artifacts" => AI!TypeOK
  /\ focus = "log" => RL!TypeOK
  /\ focus = "hooks" => HC!TypeOK
  /\ focus = "digest" => WD!TypeOK
  /\ focus = "prune" => OP!TypeOK
  /\ focus = "stream" => ST!TypeOK
  /\ focus = "commands" => TC!TypeOK
  /\ focus = "children" => SA!TypeOK
  /\ focus = "models" => SP!MR!TypeOK
  /\ focus = "sources" => SP!DS!TypeOK
  /\ focus = "roots" => SP!CR!TypeOK
  /\ focus = "skills" => SP!SK!TypeOK

\* What is persisted by rewriting a file promises: approvals.json and the artifacts index keep
\* what was put in them.
RecordsKept ==
  /\ focus = "approvals" => AP!GrantsKept
  /\ focus = "artifacts" => AI!ArtifactsKept

\* What the stores behind the settings pages promise: models, data sources, code roots and
\* skills keep what was saved.
StoresKeep ==
  /\ focus = "models" => SP!MR!RegistryKept
  /\ focus = "sources" => SP!DS!SourcesKept
  /\ focus = "roots" => SP!CR!RootsSound
  /\ focus = "skills" => SP!SK!SkillsKept

\* What runs beside the loop promises: one initialised server per language, hooks that decide,
\* commands whose success is the whole of their output, and sub-agents that close their records
\* once and answer with the last they said.
ProcessesSound ==
  /\ focus = "servers" => LS!ServersSound
  /\ focus = "hooks" => HC!HooksSound
  /\ focus = "commands" => TC!CommandsSound
  /\ focus = "children" => SA!ChildrenSound

\* What is told of a run is what happened: to the model the reply as it was streamed and the
\* work it no longer sees, to a reader the run's log.
AccountsKept ==
  /\ focus = "stream" => ST!StreamSound
  /\ focus = "digest" => WD!DigestKeeps
  /\ focus = "prune" => OP!PruneSettles
  /\ focus = "log" => RL!LogKept

\* A call waiting for a server, a tool waiting for its hooks and a call that began get an answer.
Answered ==
  /\ focus = "servers" => LS!CallsAnswered
  /\ focus = "hooks" => HC!DispatchEnds
  /\ focus = "commands" => TC!CallsSettle

----------------------------------------------------------------------------
(* Values TLC takes for the constants a cfg cannot write. *)

\* A pattern the program would not persist, written by hand.
MCSmuggled == {<<"edit", "*">>}

MCLanguages == <<ts, py>>
MCLanguageOf == [f \in {f1, f2} |-> IF f = f1 THEN ts ELSE py]

MCSessionOf == [i \in {"plan", "table", "export"} |-> IF i = "table" THEN "s2" ELSE "s1"]
MCSessionFiles == <<"s1", "s2">>

\* The second entry is dropped by the parser.
MCEntries ==
  <<[valid |-> TRUE, matches |-> {"edit", "grep"}],
    [valid |-> FALSE, matches |-> {"edit"}],
    [valid |-> TRUE, matches |-> {"edit", "query"}]>>

\* A provider with a key and two models, and one without a key.
MCRegistry ==
  <<[id |-> <<"p", 1>>, key |-> "secret",
     models |-> <<[id |-> <<"m", 1>>, enabled |-> TRUE, effort |-> None],
                  [id |-> <<"m", 2>>, enabled |-> FALSE, effort |-> "high"]>>],
    [id |-> <<"p", 2>>, key |-> None,
     models |-> <<[id |-> <<"m", 3>>, enabled |-> TRUE, effort |-> None]>>]>>

MCDirOrigin == [q |-> "u", r |-> None]
=============================================================================
