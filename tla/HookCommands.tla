---------------------------- MODULE HookCommands ----------------------------
(***************************************************************************)
(* The PreToolUse hooks of a run: the built-in reminders with their        *)
(* streaks (builtinHooks.ts, agentLoop.ts), the user's commands loaded     *)
(* from hooks.json (userHookLoader.ts), and the process behind each fired  *)
(* command, whose exit, launch error and timeout race (userHooks.ts).      *)
(***************************************************************************)
EXTENDS Naturals, Sequences, FiniteSets

CONSTANTS
  Entries,   \* the PreToolUse entries of hooks.json in order: [valid, matches]
  Threshold, \* FAN_OUT_STREAK_THRESHOLD and PROBE_STREAK_THRESHOLD
  Turns      \* bound: tool turns of the run

VARIABLES
  loaded,   \* the entries that are hooks of this run, with how many were dropped
  streaks,  \* per nudge what it watches: singleExploreStreak, lowYieldStreak
  armed,    \* closure state of the built-ins: live fired, fan-out and probe nudged
  fire,     \* the dispatch: the hooks still to run, results, contexts, decision
  child,    \* per user command: none, running, or over; over after a timeout is "killed"
  turn,     \* bound: tool turns so far
  ended,    \* history: how the process behind a command's result ended
  reminded  \* history: reminders injected since their streak was last broken

vars == <<loaded, streaks, armed, fire, child, turn, ended, reminded>>

\* The hooks are known by their places in the registry, where the built-ins come first:
\* the ids of hooks.json need not differ.
Builtins == <<"live", "fanout", "probe">>
BuiltinHooks == 1..Len(Builtins)
UserHook(n) == Len(Builtins) + n
UserHooks == {UserHook(n) : n \in 1..Len(Entries)}

\* The built-ins that answer a streak; "live" speaks once a run.
Nudges == {"fanout", "probe"}

Tools == {"grep", "query", "edit"}
Explores(tool) == tool = "grep"
Still == [pc |-> "idle", tool |-> "grep", single |-> TRUE, todo |-> {}, results |-> <<>>,
          contexts |-> {}, modified |-> FALSE]

\* What the parser leaves of the file, and a threshold that is reached by a streak.
Registered ==
  /\ Entries \in Seq([valid : BOOLEAN, matches : SUBSET Tools])
  /\ Threshold \in Nat \ {0} /\ Turns \in Nat

Init ==
  /\ loaded = [state |-> "unread", hooks |-> {}, dropped |-> 0]
  /\ streaks = [b \in Nudges |-> 0]
  /\ armed = [b \in {"live"} \cup Nudges |-> FALSE]
  /\ fire = Still
  /\ child = [h \in UserHooks |-> "none"] /\ ended = [h \in UserHooks |-> "none"]
  /\ turn = 0
  /\ reminded = [b \in Nudges |-> 0]

\* parseUserHookConfig: an unknown event, an empty command or a bad matcher drops the entry.
WellFormed == {n \in 1..Len(Entries) : Entries[n].valid}

\* parseHooksFile: a corrupt file has no hooks; what was dropped is counted.
ParseHooksFile(file) ==
  IF file = "entries"
  THEN [state |-> file, hooks |-> WellFormed, dropped |-> Len(Entries) - Cardinality(WellFormed)]
  ELSE [state |-> file, hooks |-> {}, dropped |-> 0]

\* loadUserHooks, once per run: the global file, whose hooks are always trusted.
LoadHooks(file) ==
  /\ loaded.state = "unread"
  /\ loaded' = ParseHooksFile(file)
  /\ UNCHANGED <<streaks, armed, fire, child, turn, ended, reminded>>

\* The hooks whose matcher takes the tool.
Matching(tool) ==
  {h \in BuiltinHooks : (Builtins[h] = "live") = (tool = "query")}
    \cup {UserHook(n) : n \in {n \in loaded.hooks : tool \in Entries[n].matches}}

\* A validated call of a turn fires its PreToolUse hooks.
FireHooks(tool, single) ==
  /\ loaded.state # "unread" /\ fire.pc = "idle" /\ turn < Turns
  /\ turn' = turn + 1
  /\ fire' = [Still EXCEPT !.pc = "hooks", !.tool = tool, !.single = single,
                           !.todo = Matching(tool)]
  /\ child' = [h \in UserHooks |-> "none"] /\ ended' = [h \in UserHooks |-> "none"]
  /\ UNCHANGED <<loaded, streaks, armed, reminded>>

Result(h, decision, failOpen) == [hook |-> h, decision |-> decision, failOpen |-> failOpen]

\* Registration order is dispatch order.
IsNext(h) == h \in fire.todo /\ \A other \in fire.todo : h <= other

\* runHooksUntilBlock takes one decision: it is recorded, its context accumulates, a
\* block ends the dispatch and a modification flows on to the next hook.
Take(h, decision, context, failOpen) ==
  fire' = [fire EXCEPT
    !.results = Append(@, Result(h, decision, failOpen)),
    !.contexts = IF context THEN @ \cup {h} ELSE @,
    !.modified = @ \/ decision = "modify",
    !.todo = @ \ {h},
    !.pc = IF decision = "block" THEN "blocked" ELSE "hooks"]

\* The reminders: live fires once a run, the other two once per crossing of their streak.
Over(b) == b \in Nudges => streaks[b] >= Threshold

RunBuiltin(h) ==
  /\ fire.pc = "hooks" /\ IsNext(h)
  /\ LET b == Builtins[h]
         injects == Over(b) /\ ~armed[b]
     IN  /\ armed' = [armed EXCEPT ![b] = Over(b)]
         /\ reminded' = IF injects /\ b \in Nudges THEN [reminded EXCEPT ![b] = @ + 1] ELSE reminded
         /\ Take(h, "allow", injects, FALSE)
  /\ UNCHANGED <<loaded, streaks, child, turn, ended>>

\* createCommandHook: the command is spawned per fire; a throwing spawn resolves at once.
SpawnCommand(h, ok) ==
  /\ fire.pc = "hooks" /\ IsNext(h) /\ child[h] = "none"
  /\ child' = [child EXCEPT ![h] = IF ok THEN "running" ELSE "over"]
  /\ IF ok THEN UNCHANGED <<fire, ended>>
     ELSE Take(h, "allow", FALSE, TRUE) /\ ended' = [ended EXCEPT ![h] = "unspawned"]
  /\ UNCHANGED <<loaded, streaks, armed, turn, reminded>>

Exits == {"two", "clean", "text", "allow", "block", "modify", "other"}

\* interpret: exit 2 or an explicit block blocks; text is context; the rest allows.
Interpret(h, exit) ==
  CASE exit \in {"two", "block"} -> Take(h, "block", FALSE, FALSE)
    [] exit = "modify" -> Take(h, "modify", FALSE, FALSE)
    [] exit = "text" -> Take(h, "allow", TRUE, FALSE)
    [] exit = "other" -> Take(h, "allow", FALSE, TRUE)
    [] OTHER -> Take(h, "allow", FALSE, FALSE)

\* Mutant: finish without its settled flag, so a close after the timeout decides again.
CloseDecidesAgain(h, exit) ==
  /\ child[h] \in {"running", "killed"}
  /\ child' = [child EXCEPT ![h] = "over"]
  /\ IF fire.pc = "hooks"
     THEN Interpret(h, exit) /\ ended' = [ended EXCEPT ![h] = exit]
     ELSE UNCHANGED <<fire, ended>>
  /\ UNCHANGED <<loaded, streaks, armed, turn, reminded>>

\* close: it decides, unless the timeout did; then the killed process only goes away.
CommandCloses(h, exit) ==
  /\ child[h] \in {"running", "killed"}
  /\ child' = [child EXCEPT ![h] = "over"]
  /\ IF child[h] = "running"
     THEN Interpret(h, exit) /\ ended' = [ended EXCEPT ![h] = exit]
     ELSE UNCHANGED <<fire, ended>>
  /\ UNCHANGED <<loaded, streaks, armed, turn, reminded>>

\* The timer or an error event settles the promise; the timer also kills the child.
CommandFails(h, how) ==
  /\ child[h] = "running"
  /\ how \in {"timeout", "error"}
  /\ child' = [child EXCEPT ![h] = IF how = "timeout" THEN "killed" ELSE "over"]
  /\ Take(h, "allow", FALSE, TRUE)
  /\ ended' = [ended EXCEPT ![h] = how]
  /\ UNCHANGED <<loaded, streaks, armed, turn, reminded>>

\* Every hook allowed: the call goes on to the gate and the tool.
HooksPass ==
  /\ fire.pc = "hooks" /\ fire.todo = {}
  /\ fire' = [fire EXCEPT !.pc = "passed"]
  /\ UNCHANGED <<loaded, streaks, armed, child, turn, ended, reminded>>

\* After the turn's tools ran the streaks are counted; a block is an error, not a near-empty result.
TurnOver(nearEmpty) ==
  /\ fire.pc \in {"passed", "blocked"}
  /\ fire.pc = "blocked" => ~nearEmpty
  /\ LET probed == fire.single /\ Explores(fire.tool)
         counts(b) == probed /\ (b = "probe" => nearEmpty)
     IN  /\ streaks' = [b \in Nudges |-> IF counts(b) THEN streaks[b] + 1 ELSE 0]
         /\ reminded' = [b \in Nudges |-> IF counts(b) THEN reminded[b] ELSE 0]
  /\ fire' = Still
  /\ UNCHANGED <<loaded, armed, child, turn, ended>>

Next ==
  \/ \E file \in {"absent", "corrupt", "entries"} : LoadHooks(file)
  \/ \E tool \in Tools, single \in BOOLEAN : FireHooks(tool, single)
  \/ \E h \in BuiltinHooks : RunBuiltin(h)
  \/ HooksPass
  \/ \E h \in UserHooks : \/ \E ok \in BOOLEAN : SpawnCommand(h, ok)
                          \/ \E exit \in Exits : CommandCloses(h, exit)
                          \/ \E how \in {"timeout", "error"} : CommandFails(h, how)
  \/ \E nearEmpty \in BOOLEAN : TurnOver(nearEmpty)

\* The timer is the only event of a command that must come.
Fairness ==
  /\ WF_vars(\E h \in BuiltinHooks : RunBuiltin(h)) /\ WF_vars(HooksPass)
  /\ WF_vars(\E h \in UserHooks, ok \in BOOLEAN : SpawnCommand(h, ok))
  /\ \A h \in UserHooks : WF_vars(CommandFails(h, "timeout"))

Spec == Init /\ [][Next]_vars /\ Fairness

----------------------------------------------------------------------------

Hooks == BuiltinHooks \cup UserHooks
Results == [hook : Hooks, decision : {"allow", "modify", "block"}, failOpen : BOOLEAN]
Dispatches ==
  [pc : {"idle", "hooks", "passed", "blocked"}, tool : Tools, single : BOOLEAN,
   todo : SUBSET Hooks, results : Seq(Results), contexts : SUBSET Hooks, modified : BOOLEAN]

TypeOK ==
  /\ loaded \in [state : {"unread", "absent", "corrupt", "entries"},
                 hooks : SUBSET (1..Len(Entries)), dropped : 0..Len(Entries)]
  /\ streaks \in [Nudges -> Nat]
  /\ armed \in [{"live"} \cup Nudges -> BOOLEAN]
  /\ fire \in Dispatches
  /\ child \in [UserHooks -> {"none", "running", "killed", "over"}]
  /\ turn \in 0..Turns
  /\ ended \in [UserHooks -> {"none", "unspawned", "timeout", "error"} \cup Exits]
  /\ reminded \in [Nudges -> Nat]

\* Every hook leaves one result, in order, up to the one that blocked; a command blocks
\* only by how its own process closed, and whatever broke it is recorded as fail-open.
HooksDecide ==
  fire.pc # "idle" =>
    LET n == Len(fire.results)
        hook(i) == fire.results[i].hook
    IN  /\ {hook(i) : i \in 1..n} \cup fire.todo = Matching(fire.tool)
        /\ \A i \in 1..n :
             /\ \A k \in 1..n : i < k => hook(i) < hook(k)
             /\ \A h \in fire.todo : hook(i) < h
             /\ (fire.results[i].decision = "block") => i = n /\ fire.pc = "blocked"
             /\ hook(i) \in UserHooks =>
                  /\ (fire.results[i].decision = "block") = (ended[hook(i)] \in {"two", "block"})
                  /\ fire.results[i].failOpen =
                       (ended[hook(i)] \in {"unspawned", "timeout", "error", "other"})

\* A streak is answered by one reminder however long it grows, and by one once a probe
\* met it over the threshold.
RemindedOnce ==
  \A b \in Nudges :
    /\ reminded[b] <= 1
    /\ streaks[b] > Threshold /\ fire.pc = "idle" => reminded[b] = 1

HooksSound == HooksDecide /\ RemindedOnce

\* A dispatch ends whatever the commands do: nothing a command does holds a call for good.
DispatchEnds == (fire.pc = "hooks") ~> (fire.pc # "hooks")
=============================================================================
