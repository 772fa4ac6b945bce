------------------------------ MODULE RunView ------------------------------
(***************************************************************************)
(* How the renderer folds the events of one run into the session           *)
(* (fileSessionsProvider.ts, runAgentReply): the work block and its steps, *)
(* the answer bubble, the cards, and what finalize leaves on screen and on *)
(* disk.  A step of the environment is one event of the agent loop.        *)
(***************************************************************************)
EXTENDS Naturals, Sequences, SequencesExt, FiniteSets

CONSTANTS
  Calls,   \* tool-use ids
  Names,   \* "bash", "spawn", "card" (update_plan), "plan" (propose_plan), "ui" (render_ui)
  Events   \* bound: events of the run

VARIABLES
  loop,     \* the agent loop: asked calls without a result, is a batch still being announced,
            \* did the turn speak, children
  text,     \* the open stretch of visible text, by chunk
  thought,  \* thinkingBuffer: "none", "text" or "redacted"
  steps,    \* closed work steps
  openCalls,\* call -> its name, while it runs
  slots,    \* subagentSlots: child -> has it an action in progress
  created,  \* the answer bubble is shown
  cards,    \* the task list is shown, a plan and the ui cards captured
  work,     \* the work message on screen: steps and how many run
  live,     \* roles on screen below the question, in order
  disk,     \* roles finalize persisted, in order
  outcome,  \* the reason finalize was called with, "none" before
  n,        \* bound: events so far
  said,     \* history: chunks the model said, minus replies the verifier rejected
  begun     \* history: tool calls and child actions that began, as steps they owe

vars == <<loop, text, thought, steps, openCalls, slots, created, cards, work, live, disk,
          outcome, n, said, begun>>

Absent == "none"
Plain == [c \in {} |-> Absent]
Without(f, c) == [x \in DOMAIN f \ {c} |-> f[x]]
Step(kind, id, ok) == [kind |-> kind, id |-> id, ok |-> ok, chunks |-> <<>>]

\* updateWork: closed steps, the streaming thought, and a running step per open call.
Shown(st, th, calls) == [steps |-> st, running |-> Cardinality(DOMAIN calls) + (IF th = "text" THEN 1 ELSE 0)]

Init ==
  /\ loop = [asked |-> {}, batch |-> FALSE, spoke |-> FALSE, kids |-> {}]
  /\ text = <<>> /\ thought = Absent /\ steps = <<>>
  /\ openCalls = Plain /\ slots = Plain
  /\ created = FALSE
  /\ cards = [tasks |-> FALSE, plan |-> FALSE, uis |-> 0]
  /\ work = Shown(<<>>, Absent, Plain)
  /\ live = <<"work">> /\ disk = <<>>
  /\ outcome = Absent
  /\ n = 0 /\ said = <<>> /\ begun = {}

\* closeStep for thinking: a row only for streamed or redacted reasoning.
ThoughtStep == IF thought = Absent THEN <<>> ELSE <<Step("thinking", Absent, TRUE)>>

\* closeThinkingOrSkip: after visible text an empty stretch is no thought, and a
\* redacted one waits for the next boundary.
ThoughtCloses == text = <<>> \/ thought = "text"

\* updateAssistant: the bubble is created at the end, or updated in place.
Bubble == /\ created' = TRUE
          /\ live' = IF created THEN live ELSE Append(live, "assistant")

Event == outcome = Absent /\ n < Events /\ n' = n + 1

Streaming == Event /\ loop.asked = {}

ThinkingDelta(th) ==
  /\ Streaming
  /\ thought' = IF th = "redacted" /\ thought = "text" THEN "text" ELSE th
  /\ work' = Shown(steps, thought', openCalls)
  /\ UNCHANGED <<loop, text, steps, openCalls, slots, created, cards, live, disk, outcome, said, begun>>

\* stream_retry: only an attempt that showed nothing is retried; its reasoning is dropped.
StreamRetry ==
  /\ Streaming /\ ~loop.spoke /\ thought # Absent
  /\ thought' = Absent
  /\ UNCHANGED <<loop, text, steps, openCalls, slots, created, cards, work, live, disk,
                 outcome, said, begun>>

\* The first text of a stretch closes the thinking before it.
AssistantDelta ==
  /\ Streaming
  /\ IF text = <<>>
     THEN steps' = steps \o ThoughtStep /\ thought' = Absent /\ work' = Shown(steps', Absent, openCalls)
     ELSE UNCHANGED <<steps, thought, work>>
  /\ text' = Append(text, n) /\ said' = Append(said, n)
  /\ loop' = [loop EXCEPT !.spoke = TRUE]
  /\ Bubble
  /\ UNCHANGED <<openCalls, slots, cards, disk, outcome, begun>>

\* The first call of a batch closes the thinking and seals the text before it into a step;
\* a delivery tool does not.
Sealed(name) ==
  IF openCalls = Plain /\ text # <<>> /\ name # "plan"
  THEN <<[Step("text", Absent, TRUE) EXCEPT !.chunks = text]>> ELSE <<>>

\* update_plan replaces the task list's card, which sits above the answer bubble.
Card ==
  /\ cards' = [cards EXCEPT !.tasks = TRUE]
  /\ live' = IF cards.tasks THEN live
             ELSE IF created THEN SelectSeq(live, LAMBDA r : r # "assistant") \o <<"tasks", "assistant">>
             ELSE Append(live, "tasks")

ToolUse(c, name) ==
  /\ Event
  /\ loop.asked = {} \/ loop.batch   \* a concurrent batch is announced before any result
  /\ c \notin loop.asked /\ ~\E b \in begun : b[1] = c
  /\ loop' = [loop EXCEPT !.asked = @ \cup {c}, !.batch = TRUE, !.spoke = FALSE]
  /\ LET first == openCalls = Plain
         closes == first /\ ThoughtCloses
     IN  /\ steps' = steps \o (IF closes THEN ThoughtStep ELSE <<>>) \o Sealed(name)
         /\ thought' = IF closes THEN Absent ELSE thought
         /\ text' = IF Sealed(name) = <<>> THEN text ELSE <<>>
  /\ IF name = "card"
     THEN Card /\ UNCHANGED <<openCalls, begun>>
     ELSE /\ openCalls' = [x \in DOMAIN openCalls \cup {c} |-> IF x = c THEN name ELSE openCalls[x]]
          /\ begun' = begun \cup {<<c, name, 0>>}
          /\ cards' = [cards EXCEPT !.plan = @ \/ name = "plan",
                                    !.uis = @ + (IF name = "ui" THEN 1 ELSE 0)]
          /\ UNCHANGED live
  /\ work' = Shown(steps', thought', openCalls')
  /\ UNCHANGED <<slots, created, disk, outcome, said>>

\* Mutant: the result of a call leaves the call open.
StaysOpen(c, ok) ==
  /\ Event /\ c \in loop.asked \ loop.kids
  /\ loop' = [loop EXCEPT !.asked = @ \ {c}, !.batch = FALSE]
  /\ steps' = IF c \in DOMAIN openCalls THEN Append(steps, Step("tool", c, ok)) ELSE steps
  /\ work' = Shown(steps', thought, openCalls')
  /\ UNCHANGED <<openCalls, text, thought, slots, created, cards, live, disk, outcome, said, begun>>

\* A result closes its own call's step, wherever it stands in the batch.
ToolResult(c, ok) ==
  /\ Event /\ c \in loop.asked \ loop.kids
  /\ loop' = [loop EXCEPT !.asked = @ \ {c}, !.batch = FALSE]
  /\ steps' = IF c \in DOMAIN openCalls THEN Append(steps, Step("tool", c, ok)) ELSE steps
  /\ openCalls' = Without(openCalls, c)
  /\ work' = Shown(steps', thought, openCalls')
  /\ UNCHANGED <<text, thought, slots, created, cards, live, disk, outcome, said, begun>>

ChildStep(c) == IF c \in DOMAIN slots /\ slots[c] > 0 THEN <<Step("child", c, TRUE)>> ELSE <<>>

SubagentStart(c) ==
  /\ Event /\ c \in DOMAIN openCalls /\ openCalls[c] = "spawn"
  /\ c \notin loop.kids /\ ~\E i \in 1..Len(steps) : steps[i].id = c
  /\ loop' = [loop EXCEPT !.kids = @ \cup {c}, !.batch = FALSE]
  /\ slots' = [x \in DOMAIN slots \cup {c} |-> IF x = c THEN 0 ELSE slots[x]]
  /\ steps' = Append(steps, Step("spawned", c, TRUE))
  /\ work' = Shown(steps', thought, openCalls)
  /\ UNCHANGED <<text, thought, openCalls, created, cards, live, disk, outcome, said, begun>>

\* A child's next action closes the one before it, in its own slot.
SubagentTool(c) ==
  /\ Event /\ c \in loop.kids
  /\ steps' = steps \o ChildStep(c)
  /\ slots' = [slots EXCEPT ![c] = @ + 1]
  /\ begun' = begun \cup {<<c, "child", slots[c] + 1>>}
  /\ work' = Shown(steps', thought, openCalls)
  /\ UNCHANGED <<loop, text, thought, openCalls, created, cards, live, disk, outcome, said>>

SubagentEnd(c) ==
  /\ Event /\ c \in loop.kids
  /\ loop' = [loop EXCEPT !.kids = @ \ {c}]
  /\ steps' = steps \o ChildStep(c) \o <<Step("spawned", c, TRUE)>>
  /\ slots' = Without(slots, c)
  /\ work' = Shown(steps', thought, openCalls)
  /\ UNCHANGED <<text, thought, openCalls, created, cards, live, disk, outcome, said, begun>>

\* A failed verdict takes the reply back; the retry starts a new bubble.
VerifierRejects ==
  /\ Streaming /\ loop.spoke
  /\ loop' = [loop EXCEPT !.spoke = FALSE]
  /\ said' = SelectSeq(said, LAMBDA x : x \notin ToSet(text))
  /\ text' = <<>>
  /\ created' = FALSE
  /\ live' = SelectSeq(live, LAMBDA r : r # "assistant")
  /\ UNCHANGED <<thought, steps, openCalls, slots, cards, work, disk, outcome, begun>>

\* What finalize closes: child actions first, then the open calls, each as an error.
Leftovers ==
  LET kids == SetToSeq({c \in DOMAIN slots : slots[c] > 0})
      calls == SetToSeq(DOMAIN openCalls)
  IN  [i \in 1..Len(kids) |-> Step("child", kids[i], FALSE)]
      \o [i \in 1..Len(calls) |-> Step("tool", calls[i], FALSE)]

Artifacts == (IF cards.plan THEN <<"plan">> ELSE <<>>) \o [i \in 1..cards.uis |-> "ui"]

\* finalize: called by the terminal, the fallback, a rejection or the window's unload.
Finalize(reason) ==
  /\ outcome = Absent
  /\ reason = "completed" => loop.asked = {}
  /\ LET busy == openCalls # Plain \/ slots # Plain
         closed == steps \o (IF busy THEN Leftovers ELSE IF ThoughtCloses THEN ThoughtStep ELSE <<>>)
         reply == text # <<>> \/ reason # "completed"
         kept == SelectSeq(live, LAMBDA r : r # "assistant")
     IN  /\ steps' = closed
         /\ openCalls' = Plain /\ slots' = Plain
         /\ thought' = IF ~busy /\ ThoughtCloses THEN Absent ELSE thought
         /\ work' = Shown(closed, thought', Plain)
         /\ created' = reply
         /\ live' = kept \o Artifacts \o (IF reply THEN <<"assistant">> ELSE <<>>)
         /\ disk' = <<"work">> \o (IF cards.tasks THEN <<"tasks">> ELSE <<>>)
                    \o Artifacts \o (IF reply THEN <<"assistant">> ELSE <<>>)
  /\ outcome' = reason
  /\ UNCHANGED <<loop, text, cards, n, said, begun>>

Next ==
  \/ \E th \in {"text", "redacted"} : ThinkingDelta(th)
  \/ StreamRetry \/ AssistantDelta \/ VerifierRejects
  \/ \E c \in Calls : \/ \E name \in Names : ToolUse(c, name)
                      \/ \E ok \in BOOLEAN : ToolResult(c, ok)
                      \/ SubagentStart(c) \/ SubagentTool(c) \/ SubagentEnd(c)
  \/ \E reason \in {"completed", "aborted", "app_quit", "paused", "error"} : Finalize(reason)

Spec == Init /\ [][Next]_vars

----------------------------------------------------------------------------

TypeOK ==
  /\ thought \in {Absent, "text", "redacted"}
  /\ DOMAIN slots \subseteq DOMAIN openCalls /\ DOMAIN openCalls \subseteq loop.asked
  /\ n \in 0..Events

\* What the model said is there exactly once and in order: sealed into steps, then the
\* answer - but for a reply the verifier took back.
SaidOnce ==
  FoldLeft(LAMBDA acc, s : acc \o s.chunks, <<>>, steps) \o text = said

\* Every call and every action of a child closes with one step, and a call that never got
\* its result closes as an error; once the run is over nothing on screen still runs.
StepsClose ==
  LET Rows(kind, c) == Len(SelectSeq(steps, LAMBDA s : s.kind = kind /\ s.id = c))
  IN  outcome # Absent =>
        /\ work.running = 0 /\ work.steps = steps
        /\ \A c \in Calls :
             /\ Rows("tool", c) = Cardinality({b \in begun : b[1] = c /\ b[3] = 0})
             /\ Rows("child", c) = Cardinality({b \in begun : b[1] = c /\ b[3] > 0})
             /\ c \in loop.asked => \A i \in 1..Len(steps) :
                                      steps[i].kind = "tool" /\ steps[i].id = c => ~steps[i].ok

\* After the fold the screen shows, in order, what a restart will read back.
ScreenIsDisk == outcome # Absent => live = disk

RunFolded == SaidOnce /\ StepsClose /\ ScreenIsDisk
=============================================================================
