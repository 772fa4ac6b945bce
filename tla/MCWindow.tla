------------------------------ MODULE MCWindow ------------------------------
(***************************************************************************)
(* The parts of the window, on small instances.  They share no state in    *)
(* these modules, so focus picks the one part a behaviour runs, and the    *)
(* others stay at their initial state.                                     *)
(***************************************************************************)
EXTENDS Naturals, Sequences, FiniteSets

CONSTANTS None, s1, s2, m1, p1, p2, x1, d1

VARIABLES
  focus,
  \* RunView
  loop, runText, thought, steps, openCalls, slots, created, runCards, work, live, runDisk,
  outcome, n, said, runBegun,
  \* WorkbenchWindow
  provider, calls, visible, windowActive, synced, windowShown, windowMode, pane, maximized,
  sidebar, window, pin,
  \* Composer
  composerOpen, composerRunning, draft, composerActs, queued, sending, recorded, images, reads,
  cursor, prompts, composerSent, submits,
  \* MentionMenu
  menuText, caret, menus, paths, menuLoads, menuProject, menuAsked, replaced,
  \* Sidebar
  sessions, sidebarMode, sidebarActive, sidebarStored, lists, projects, current, collapsed,
  bound, sidebarShown,
  \* SidePane
  tabs, front, paneMade, paneSession, summary, paneView, rebuilt, paneLoads, review,
  \* RunLogPane
  logs, logBegun, logActive, runs, logSelected, logPage, step, token, logAsked,
  \* Appearance
  themeStored, system, applied, listening, dialog, unsaved, themeEdits,
  \* ProjectConfig
  configStore, configShown, configPage, modal, configAsked, adding, configMade, configAsks,
  configOverlapped, partial,
  \* DataBrowser
  panel, handoff, dataActs,
  \* ModelSettings
  settingsStore, settingsView, explicit, settingsSelected, settingsPage, settingsAsked,
  settingsAsks, verified, settingsOverlapped, twice,
  \* ApprovalDock
  pending, arrived, dockOpen, dockCards, reasons, seen, dockFocus, focused, answers, typed,
  \* Surface
  stream, chunks, painted, surfaceMessages, posted, surfaceActive, folded, surfaceEdits,
  mappingEdits, surfaceActs, surfaceSent,
  \* Transcript
  transcriptSession, transcriptMessages, dom, rows, laid, top, forced, settle, ticker, reveal,
  transcriptActs, owed, moved,
  \* QuotaIndicator
  used, configured, clock, quotaRunning, inflight, pill, popover, quotaAsks, settled, past

Unset == [theme |-> "light", mode |-> None, light |-> None, dark |-> None]
Dark == {"dark", "highContrast"}

RV == INSTANCE RunView WITH
        Calls <- {"c1", "c2"}, Names <- {"bash", "spawn", "card", "plan", "ui"}, Events <- 5,
        text <- runText, cards <- runCards, disk <- runDisk, begun <- runBegun
WW == INSTANCE WorkbenchWindow WITH
        Sessions <- {s1, s2}, Pending <- 2, Windows <- {90, 170}, Pins <- {45},
        active <- windowActive, shown <- windowShown, mode <- windowMode
CO == INSTANCE Composer WITH
        Sessions <- {s1, s2}, ReadOnly <- {}, Mentions <- {m1}, Covers <- {}, MaxImages <- 1,
        Acts <- 6, Reads <- 2, open <- composerOpen, running <- composerRunning,
        acts <- composerActs, sent <- composerSent
MM == INSTANCE MentionMenu WITH
        Projects <- {p1, p2}, Width <- 2, Loads <- 2, text <- menuText, loads <- menuLoads,
        project <- menuProject, asked <- menuAsked
SB == INSTANCE Sidebar WITH
        Sessions <- {s1}, Projects <- {"p"}, Lists <- 2, Folds <- 1, mode <- sidebarMode,
        active <- sidebarActive, stored <- sidebarStored, shown <- sidebarShown
SP == INSTANCE SidePane WITH
        Kinds <- {"review", "artifacts"}, Sessions <- {"s", "t"},
        ScopeOf <- [s |-> p1,t |-> None], Summaries <- 1, Made <- 2, Loads <- 2,
        made <- paneMade, session <- paneSession, view <- paneView, loads <- paneLoads
RP == INSTANCE RunLogPane WITH
        Runs <- 2, SessionOf <- <<"s", "t">>, Errors <- {2}, CallIds <- {"c"}, Events <- 2,
        Asks <- 2, begun <- logBegun, active <- logActive, selected <- logSelected,
        page <- logPage, asked <- logAsked
AE == INSTANCE Appearance WITH
        PresetsOf <- [light |-> {"light"}, dark |-> Dark], Seeds <- {0, 1}, Edits <- 3,
        stored <- themeStored, edits <- themeEdits
PC == INSTANCE ProjectConfig WITH
        Items <- {x1}, Ids <- 3, Asks <- 2, store <- configStore, shown <- configShown,
        page <- configPage, asked <- configAsked, made <- configMade, asks <- configAsks,
        overlapped <- configOverlapped
DB == INSTANCE DataBrowser WITH
        Projects <- {"p", "q"}, SourcesOf <- [p |-> {1, 2},q |-> {3}], Tables <- {1, 2},
        Files <- {d1}, Acts <- 2, acts <- dataActs
MS == INSTANCE ModelSettings WITH
        Presets <- <<"a">>, Keys <- {2}, Asks <- 2, store <- settingsStore, view <- settingsView,
        selected <- settingsSelected, page <- settingsPage, asked <- settingsAsked,
        asks <- settingsAsks, overlapped <- settingsOverlapped
AD == INSTANCE ApprovalDock WITH
        Requests <- 1..4, SessionOf <- <<"s", "s", "t", "s">>, Guarded <- {1, 3, 4},
        GrantOf <- <<"project", "none", "session", "session">>, CompactAfter <- 2,
        open <- dockOpen, cards <- dockCards, focus <- dockFocus
SU == INSTANCE Surface WITH
        Sessions <- {"s", "t"}, Chunks <- 3, Patches <- 2, Edits <- 2,
        messages <- surfaceMessages, active <- surfaceActive, edits <- surfaceEdits,
        acts <- surfaceActs, sent <- surfaceSent
TV == INSTANCE Transcript WITH
        Sessions <- {"s", "t"}, Ids <- {1}, View <- 2, Sizes <- 1, Frames <- 4, Attempts <- 1,
        Acts <- 4, session <- transcriptSession, messages <- transcriptMessages,
        acts <- transcriptActs
QI == INSTANCE QuotaIndicator WITH
        Limit <- 2, Times <- 1, Asks <- 3, running <- quotaRunning, asks <- quotaAsks

Services == {"run", "window", "composer", "menu", "sidebar", "pane", "log", "appearance",
             "config", "data", "settings", "dock", "surface", "transcript", "quota"}

runVars == <<loop, runText, thought, steps, openCalls, slots, created, runCards, work, live,
  runDisk, outcome, n, said, runBegun>>
windowVars == <<provider, calls, visible, windowActive, synced, windowShown, windowMode, pane,
  maximized, sidebar, window, pin>>
composerVars == <<composerOpen, composerRunning, draft, composerActs, queued, sending, recorded,
  images, reads, cursor, prompts, composerSent, submits>>
menuVars == <<menuText, caret, menus, paths, menuLoads, menuProject, menuAsked, replaced>>
sidebarVars == <<sessions, sidebarMode, sidebarActive, sidebarStored, lists, projects, current,
  collapsed, bound, sidebarShown>>
paneVars == <<tabs, front, paneMade, paneSession, summary, paneView, rebuilt, paneLoads, review>>
logVars == <<logs, logBegun, logActive, runs, logSelected, logPage, step, token, logAsked>>
themeVars == <<themeStored, system, applied, listening, dialog, unsaved, themeEdits>>
configVars == <<configStore, configShown, configPage, modal, configAsked, adding, configMade,
  configAsks, configOverlapped, partial>>
dataVars == <<panel, handoff, dataActs>>
settingsVars == <<settingsStore, settingsView, explicit, settingsSelected, settingsPage,
  settingsAsked, settingsAsks, verified, settingsOverlapped, twice>>
dockVars == <<pending, arrived, dockOpen, dockCards, reasons, seen, dockFocus, focused, answers,
  typed>>
surfaceVars == <<stream, chunks, painted, surfaceMessages, posted, surfaceActive, folded,
  surfaceEdits, mappingEdits, surfaceActs, surfaceSent>>
transcriptVars == <<transcriptSession, transcriptMessages, dom, rows, laid, top, forced, settle,
  ticker, reveal, transcriptActs, owed, moved>>
quotaVars == <<used, configured, clock, quotaRunning, inflight, pill, popover, quotaAsks,
  settled, past>>
vars == <<focus, runVars, windowVars, composerVars, menuVars, sidebarVars, paneVars, logVars,
  themeVars, configVars, dataVars, settingsVars, dockVars, surfaceVars, transcriptVars,
  quotaVars>>

Init ==
  /\ focus \in Services
  /\ RV!Init
  /\ WW!Init /\ (focus = "window" \/ window = 90)
  /\ CO!Init
  /\ MM!Init /\ (focus = "menu" \/ menuProject = p1)
  /\ SB!Init /\ (focus = "sidebar" \/ sidebarStored = {})
  /\ SP!Init /\ (focus = "pane" \/ paneSession = "s")
  /\ RP!Init /\ (focus = "log" \/ logActive = "s")
  /\ AE!Init /\ (focus = "appearance" \/ <<themeStored, system>> = <<AE!SanitizeAppearance(Unset), "light">>)
  /\ PC!Init /\ (focus = "config" \/ configStore.envs = {})
  /\ DB!Init /\ (focus = "data" \/ panel.project = "p")
  /\ MS!Init
  /\ AD!Init /\ (focus = "dock" \/ dockOpen = "s")
  /\ SU!Init /\ (focus = "surface" \/ surfaceActive = "s")
  /\ TV!Init /\ (focus = "transcript" \/ transcriptSession = "s")
  /\ QI!Init /\ (focus = "quota" \/ ~configured)

\* A step of one part leaves the others alone.
Next ==
  \/ focus = "run" /\ RV!Next /\ UNCHANGED <<focus, windowVars, composerVars, menuVars,
       sidebarVars, paneVars, logVars, themeVars, configVars, dataVars, settingsVars, dockVars,
       surfaceVars, transcriptVars, quotaVars>>
  \/ focus = "window" /\ WW!Next /\ UNCHANGED <<focus, runVars, composerVars, menuVars,
       sidebarVars, paneVars, logVars, themeVars, configVars, dataVars, settingsVars, dockVars,
       surfaceVars, transcriptVars, quotaVars>>
  \/ focus = "composer" /\ CO!Next /\ UNCHANGED <<focus, runVars, windowVars, menuVars,
       sidebarVars, paneVars, logVars, themeVars, configVars, dataVars, settingsVars, dockVars,
       surfaceVars, transcriptVars, quotaVars>>
  \/ focus = "menu" /\ MM!Next /\ UNCHANGED <<focus, runVars, windowVars, composerVars,
       sidebarVars, paneVars, logVars, themeVars, configVars, dataVars, settingsVars, dockVars,
       surfaceVars, transcriptVars, quotaVars>>
  \/ focus = "sidebar" /\ SB!Next /\ UNCHANGED <<focus, runVars, windowVars, composerVars,
       menuVars, paneVars, logVars, themeVars, configVars, dataVars, settingsVars, dockVars,
       surfaceVars, transcriptVars, quotaVars>>
  \/ focus = "pane" /\ SP!Next /\ UNCHANGED <<focus, runVars, windowVars, composerVars, menuVars,
       sidebarVars, logVars, themeVars, configVars, dataVars, settingsVars, dockVars, surfaceVars,
       transcriptVars, quotaVars>>
  \/ focus = "log" /\ RP!Next /\ UNCHANGED <<focus, runVars, windowVars, composerVars, menuVars,
       sidebarVars, paneVars, themeVars, configVars, dataVars, settingsVars, dockVars,
       surfaceVars, transcriptVars, quotaVars>>
  \/ focus = "appearance" /\ AE!Next /\ UNCHANGED <<focus, runVars, windowVars, composerVars,
       menuVars, sidebarVars, paneVars, logVars, configVars, dataVars, settingsVars, dockVars,
       surfaceVars, transcriptVars, quotaVars>>
  \/ focus = "config" /\ PC!Next /\ UNCHANGED <<focus, runVars, windowVars, composerVars,
       menuVars, sidebarVars, paneVars, logVars, themeVars, dataVars, settingsVars, dockVars,
       surfaceVars, transcriptVars, quotaVars>>
  \/ focus = "data" /\ DB!Next /\ UNCHANGED <<focus, runVars, windowVars, composerVars, menuVars,
       sidebarVars, paneVars, logVars, themeVars, configVars, settingsVars, dockVars, surfaceVars,
       transcriptVars, quotaVars>>
  \/ focus = "settings" /\ MS!Next /\ UNCHANGED <<focus, runVars, windowVars, composerVars,
       menuVars, sidebarVars, paneVars, logVars, themeVars, configVars, dataVars, dockVars,
       surfaceVars, transcriptVars, quotaVars>>
  \/ focus = "dock" /\ AD!Next /\ UNCHANGED <<focus, runVars, windowVars, composerVars, menuVars,
       sidebarVars, paneVars, logVars, themeVars, configVars, dataVars, settingsVars, surfaceVars,
       transcriptVars, quotaVars>>
  \/ focus = "surface" /\ SU!Next /\ UNCHANGED <<focus, runVars, windowVars, composerVars,
       menuVars, sidebarVars, paneVars, logVars, themeVars, configVars, dataVars, settingsVars,
       dockVars, transcriptVars, quotaVars>>
  \/ focus = "transcript" /\ TV!Next /\ UNCHANGED <<focus, runVars, windowVars, composerVars,
       menuVars, sidebarVars, paneVars, logVars, themeVars, configVars, dataVars, settingsVars,
       dockVars, surfaceVars, quotaVars>>
  \/ focus = "quota" /\ QI!Next /\ UNCHANGED <<focus, runVars, windowVars, composerVars, menuVars,
       sidebarVars, paneVars, logVars, themeVars, configVars, dataVars, settingsVars, dockVars,
       surfaceVars, transcriptVars>>

Spec == Init /\ [][Next]_vars

----------------------------------------------------------------------------
TypeOK ==
  /\ focus = "run" => RV!TypeOK
  /\ focus = "window" => WW!TypeOK
  /\ focus = "composer" => CO!TypeOK
  /\ focus = "menu" => MM!TypeOK
  /\ focus = "sidebar" => SB!TypeOK
  /\ focus = "pane" => SP!TypeOK
  /\ focus = "log" => RP!TypeOK
  /\ focus = "appearance" => AE!TypeOK
  /\ focus = "config" => PC!TypeOK
  /\ focus = "data" => DB!TypeOK
  /\ focus = "settings" => MS!TypeOK
  /\ focus = "dock" => AD!TypeOK
  /\ focus = "surface" => SU!TypeOK
  /\ focus = "transcript" => TV!TypeOK
  /\ focus = "quota" => QI!TypeOK

\* What a run leaves on screen is what it did, what the user typed and picked is what is sent, and
\* the surface shows what its batches say and confirms what the user changed on it.
ConversationSound ==
  /\ focus = "run" => RV!RunFolded
  /\ focus = "composer" => CO!ComposerSound
  /\ focus = "menu" => MM!MenusSound
  /\ focus = "dock" => AD!DockSound
  /\ focus = "surface" => SU!SurfaceSound


\* What the settings pages show is what is stored, and what they store was checked.
SettingsSound ==
  /\ focus = "appearance" => AE!AppearanceSound
  /\ focus = "config" => PC!ConfigSound
  /\ focus = "settings" => MS!ModelSettingsSound

=============================================================================
