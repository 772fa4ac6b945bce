----------------------------- MODULE AgentLoop -----------------------------
(***************************************************************************)
(* `runAgentLoop` of src/main/agent/agentLoop.ts, with the quota fast-stop *)
(* and the resume of a paused run that surround it: one model turn after   *)
(* another, with compaction before the request, the retry ladder around    *)
(* the stream, the convergence brake, the Stop hooks and every checkpoint  *)
(* at which an abort settles the run.                                      *)
(*                                                                         *)
(* A message is abstracted to what it is; the tool calls of a turn are one *)
(* step here (ToolRunner has their detail).  What the model streams, what  *)
(* hooks decide, when requests fail and when the user stops is free.       *)
(***************************************************************************)
EXTENDS Integers, Sequences, FiniteSets

CONSTANTS
  MaxTurns,      \* config.maxTurns
  MaxAttempts,   \* MAX_STREAM_ATTEMPTS
  StopHooks,     \* the registered Stop hooks, in dispatch order
  Verifier,      \* the one Stop hook that is a model call: the reply verifier
  NeedsText,     \* Stop hooks that block only a reply with text in it
  MayOmitReason, \* Stop hooks that can block without a reason (user hooks)
  Initial,       \* transcripts a run can be started with
  Threshold,     \* compactionThreshold(...), in token units
  Growth,        \* RETRY_GROWTH_TOKENS, in token units
  MaxTokens,     \* bound: the largest prompt
  MaxRuns        \* bound: the first run and its resumptions

Hook == {StopHooks[k] : k \in DOMAIN StopHooks}
Kind == {"user", "reply", "empty", "call", "results"}
Tokens == 0..MaxTokens

\* "reply", "empty" and "call" are assistant turns; "empty" has no content block.
Assistant == {"reply", "empty", "call"}

ASSUME AgentLoopAssumption ==
  /\ MaxTurns \in Nat \ {0}
  /\ MaxAttempts \in Nat \ {0}
  /\ StopHooks \in Seq(Hook)
  /\ \A j, k \in DOMAIN StopHooks : StopHooks[j] = StopHooks[k] => j = k
  /\ Verifier \in NeedsText /\ Verifier \notin MayOmitReason
  /\ \A ms \in Initial : ms \in Seq({"user", "reply"}) /\ ms # <<>> \* toTranscript
  /\ Threshold \in Nat \ {0}
  /\ Growth \in Nat \ {0}
  /\ MaxTokens \in Nat

VARIABLES
  messages,     \* the transcript of the run; never rewritten
  initialLen,   \* how many of them the run was started with
  turn,         \* model turns started
  pc,           \* where the generator stands
  attempt,      \* stream attempts of this turn
  text,         \* this attempt has streamed text
  shown,        \* history: the attempts of this turn whose text was streamed
  boundary,     \* messages the anchored summary stands for; 0 without one
  target,       \* the boundary the summary being written is for
  anchor,       \* the newest summary's share of the initial transcript
  usage,        \* lastUsageTokens
  lastAttempt,  \* lastCompactionAttemptTokens
  dipped,       \* history: since the last attempt usage fell a quantum below the threshold
  fired,        \* firedStopHooks
  aborted,      \* signal.aborted
  quotaHit,     \* the fast-stop wrapper has seen a 403
  terminal,     \* how the run ended
  run           \* runs so far: the first and its resumptions

runVars == <<initialLen, run>>
streamVars == <<attempt, text, shown>>
compactVars == <<boundary, target, anchor, lastAttempt, dipped>>
abortVars == <<aborted, quotaHit>>
vars == <<messages, initialLen, turn, pc, attempt, text, shown, boundary,
          target, anchor, usage, lastAttempt, dipped, fired, aborted, quotaHit,
          terminal, run>>

Phase == {"top", "summary", "stream", "backoff", "hooks", "tools", "ended"}
Reason == {"completed", "refusal", "max_output_tokens", "max_turns", "aborted",
           "paused", "failed"}

\* restoreAnchor: a non-empty strict prefix, and the tail starts on an assistant.
Restorable(ms, b) == b \in 1..(Len(ms) - 1) /\ ms[b + 1] \in Assistant

-----------------------------------------------------------------------------

Init ==
  /\ messages \in Initial
  /\ initialLen = Len(messages)
  /\ turn = 0
  /\ pc = "top"
  /\ attempt = 0
  /\ text = FALSE
  /\ shown = {}
  /\ anchor \in {0} \cup {b \in 1..Len(messages) : Restorable(messages, b)}
  /\ boundary = anchor
  /\ target = 0
  /\ usage = 0
  /\ lastAttempt = 0
  /\ dipped = FALSE
  /\ fired = {}
  /\ aborted = FALSE
  /\ quotaHit = FALSE
  /\ terminal = "none"
  /\ run = 1

\* The convergence brake: from the hard line on, no tools are offered.
HardBrakeTurn == IF MaxTurns * 9 < 10 THEN 1 ELSE (MaxTurns * 9) \div 10

ToolsOffered == turn < HardBrakeTurn

End(reason) ==
  /\ pc' = "ended"
  /\ terminal' = reason

\* settleAbort: a quota fast-stop is a pause, any other abort is the user's.
\* Mutant: every abort is the user's.
SettleAbortPlain(quota) == End("aborted")

SettleAbort(quota) == End(IF quota THEN "paused" ELSE "aborted")

\* agent:stop aborts the run's signal.
Stop ==
  /\ pc # "ended"
  /\ ~aborted
  /\ aborted' = TRUE
  /\ UNCHANGED <<messages, runVars, turn, pc, streamVars, compactVars, usage,
                 fired, quotaHit, terminal>>

\* The wrapper's reaction to a 403: flag it, abort the whole run.
FastStop ==
  /\ quotaHit' = TRUE
  /\ aborted' = TRUE

\* A sub-agent's request runs into the quota while the parent awaits its tools.
ChildQuota ==
  /\ pc = "tools"
  /\ ~quotaHit
  /\ FastStop
  /\ UNCHANGED <<messages, runVars, turn, pc, streamVars, compactVars, usage,
                 fired, terminal>>

-----------------------------------------------------------------------------
(* The top of a turn, with the compaction check. *)

AbortedAtTop ==
  /\ pc = "top"
  /\ aborted
  /\ SettleAbort(quotaHit)
  /\ UNCHANGED <<messages, runVars, turn, streamVars, compactVars, usage, fired,
                 abortVars>>

\* The first attempt of this turn's request goes out.
OpenStream ==
  /\ pc' = "stream"
  /\ attempt' = 1
  /\ text' = FALSE
  /\ shown' = {}

\* What the check reads: last turn's usage, or on turn 1 an estimate.
Occupancy(tokens) == turn = 0 \/ tokens = usage

Due(tokens) ==
  /\ tokens >= Threshold
  /\ lastAttempt = 0 \/ tokens >= lastAttempt + Growth

StartTurn(tokens) ==
  /\ pc = "top"
  /\ ~aborted
  /\ Occupancy(tokens)
  /\ ~Due(tokens)
  /\ turn' = turn + 1
  /\ OpenStream
  /\ UNCHANGED <<messages, runVars, compactVars, usage, fired, abortVars, terminal>>

\* selectBoundary: the char budget picks a cut, which snaps to an assistant turn
\* (the last one at most); a cut that leaves too short a head counts as none.
MinHead == 2

\* Mutant: the cut is taken where the budget ends, unsnapped.
CutsUnsnapped == 0..(Len(messages) - 1)

Cuts == {k - 1 : k \in {j \in 1..Len(messages) : messages[j] \in Assistant}}

\* Mutant: the head already summarised is not set aside.
WorthAny(cut) == cut >= MinHead

Worth(cut) == cut >= MinHead /\ cut > boundary

\* Nothing (new) to fold: the attempt is on record and the request goes out.
NothingToFold(tokens) ==
  /\ pc = "top"
  /\ ~aborted
  /\ Occupancy(tokens)
  /\ Due(tokens)
  /\ Cuts = {} \/ \E cut \in Cuts : ~Worth(cut)
  /\ turn' = turn + 1
  /\ lastAttempt' = tokens
  /\ dipped' = FALSE
  /\ OpenStream
  /\ UNCHANGED <<messages, runVars, boundary, target, anchor, usage, fired,
                 abortVars, terminal>>

\* The head up to the cut goes to the summarizer.
Fold(tokens) ==
  /\ pc = "top"
  /\ ~aborted
  /\ Occupancy(tokens)
  /\ Due(tokens)
  /\ \E cut \in Cuts : Worth(cut) /\ target' = cut
  /\ turn' = turn + 1
  /\ lastAttempt' = tokens
  /\ dipped' = FALSE
  /\ pc' = "summary"
  /\ UNCHANGED <<messages, runVars, streamVars, boundary, anchor, usage, fired,
                 abortVars, terminal>>

\* The summary is in; how much of the initial transcript it covers is kept.
SummaryArrives ==
  /\ pc = "summary"
  /\ boundary' = target
  /\ anchor' = IF target < initialLen THEN target ELSE initialLen
  /\ target' = 0
  /\ OpenStream
  /\ UNCHANGED <<messages, runVars, turn, usage, lastAttempt, dipped, fired,
                 abortVars, terminal>>

\* The summary request fails; `quota` says it failed with a 403.
SummaryFails(quota) ==
  /\ pc = "summary"
  /\ quota => ~quotaHit
  /\ IF quota THEN FastStop ELSE UNCHANGED abortVars
  /\ IF aborted' THEN SettleAbort(quotaHit') /\ UNCHANGED streamVars
                 ELSE OpenStream /\ UNCHANGED terminal
  /\ target' = 0
  /\ UNCHANGED <<messages, runVars, turn, boundary, anchor, lastAttempt, dipped,
                 usage, fired>>

-----------------------------------------------------------------------------
(* The request and its retry ladder. *)

\* An event after an abort, or the error the abort causes, ends the run.
AbortedInStream ==
  /\ pc = "stream"
  /\ aborted
  /\ SettleAbort(quotaHit)
  /\ UNCHANGED <<messages, runVars, turn, streamVars, compactVars, usage, fired,
                 abortVars>>

StreamText ==
  /\ pc = "stream"
  /\ ~aborted
  /\ ~text
  /\ text' = TRUE
  /\ shown' = shown \cup {attempt}
  /\ UNCHANGED <<messages, runVars, turn, pc, attempt, compactVars, usage, fired,
                 abortVars, terminal>>

\* The attempt's locals go out of scope with the stream.
CloseStream ==
  /\ attempt' = 0
  /\ text' = FALSE
  /\ shown' = {}

\* The prompt size of the request just answered, reported as the stream ends.
Report(tokens) ==
  /\ usage' = tokens
  /\ dipped' = (dipped \/ tokens + Growth <= Threshold)
  /\ UNCHANGED <<boundary, target, anchor, lastAttempt>>

\* The stream ends with tool calls: they run next.  A request that offers no
\* tools is answered without calls.
StreamEndsWithCalls(tokens) ==
  /\ pc = "stream"
  /\ ToolsOffered
  /\ Report(tokens)
  /\ messages' = Append(messages, "call")
  /\ pc' = "tools"
  /\ CloseStream
  /\ UNCHANGED <<runVars, turn, fired, abortVars, terminal>>

Unfired == {k \in DOMAIN StopHooks : StopHooks[k] \notin fired}

\* The stream ends without calls: refused, cut off, or complete - and a complete
\* reply faces the Stop hooks that have not fired yet.
StreamEndsWithReply(tokens, reason) ==
  /\ pc = "stream"
  /\ Report(tokens)
  /\ messages' = Append(messages, IF text THEN "reply" ELSE "empty")
  /\ IF reason = "completed" /\ Unfired # {}
     THEN pc' = "hooks" /\ UNCHANGED terminal
     ELSE End(reason)
  /\ CloseStream
  /\ UNCHANGED <<runVars, turn, fired, abortVars>>

\* Attempts left and nothing on screen: only then is a failed stream retried.
\* Mutant: the ladder is all that counts.
ExhaustedLadder == attempt >= MaxAttempts

\* Mutant: the ladder has no end.
ExhaustedByText == text

Exhausted == text \/ attempt >= MaxAttempts

\* The request fails, with a status before any event ("quota" is 403, "rate"
\* is 429) or with a broken connection at any point.
StreamFails(error) ==
  /\ pc = "stream"
  /\ error \in {"rate", "quota", "fatal"} => ~text
  /\ error = "quota" => ~quotaHit
  /\ IF error = "quota" THEN FastStop ELSE UNCHANGED abortVars
  /\ IF aborted' THEN SettleAbort(quotaHit')
     ELSE IF error = "rate" /\ Exhausted THEN End("paused")
     ELSE IF error = "fatal" \/ Exhausted THEN End("failed")
     ELSE pc' = "backoff" /\ UNCHANGED terminal
  /\ UNCHANGED <<messages, runVars, turn, streamVars, compactVars, usage, fired>>

\* The delay is over, or an abort cut it short.
\* Mutant: the attempt is not counted.
RetryUncounted ==
  /\ pc = "backoff"
  /\ pc' = "stream"
  /\ text' = FALSE
  /\ UNCHANGED <<messages, runVars, turn, attempt, shown, compactVars, usage,
                 fired, abortVars, terminal>>

Retry ==
  /\ pc = "backoff"
  /\ pc' = "stream"
  /\ attempt' = attempt + 1
  /\ text' = FALSE
  /\ UNCHANGED <<messages, runVars, turn, shown, compactVars, usage, fired,
                 abortVars, terminal>>

-----------------------------------------------------------------------------
(* Stop hooks, tools and the end of the turn. *)

\* The judge's request runs into the quota; the verifier itself fails open.
JudgeQuota ==
  /\ pc = "hooks"
  /\ ~quotaHit
  /\ Verifier \in {StopHooks[k] : k \in Unfired}
  /\ messages[Len(messages)] = "reply"
  /\ FastStop
  /\ UNCHANGED <<messages, runVars, turn, pc, streamVars, compactVars, usage,
                 fired, terminal>>

AbortedInHooks ==
  /\ pc = "hooks"
  /\ aborted
  /\ SettleAbort(quotaHit)
  /\ UNCHANGED <<messages, runVars, turn, streamVars, compactVars, usage, fired,
                 abortVars>>

\* What the reply gives a hook to judge.
Applies(h) == h \in NeedsText => messages[Len(messages)] = "reply"

\* The verifier leaves its verdict even when it lets the reply pass.
Judged(last) == {h \in {Verifier} : Applies(h) /\ \E k \in Unfired : k <= last /\ StopHooks[k] = h}

\* No hook blocks: the run completes.
HooksPass ==
  /\ pc = "hooks"
  /\ ~aborted
  /\ fired' = fired \cup Judged(Len(StopHooks))
  /\ End("completed")
  /\ UNCHANGED <<messages, runVars, turn, streamVars, compactVars, usage, abortVars>>

\* The first hook to block, spent by it, sends its reason back to the model.
\* Mutant: a hook that blocked may block again.
HooksBlockAgain(k) ==
  /\ pc = "hooks"
  /\ ~aborted
  /\ k \in Unfired
  /\ Applies(StopHooks[k])
  /\ messages' = Append(messages, "user")
  /\ pc' = "top"
  /\ UNCHANGED <<runVars, turn, streamVars, compactVars, usage, fired, abortVars,
                 terminal>>

HooksBlock(k) ==
  /\ pc = "hooks"
  /\ ~aborted
  /\ k \in Unfired
  /\ Applies(StopHooks[k])
  /\ fired' = fired \cup Judged(k) \cup {StopHooks[k]}
  /\ messages' = Append(messages, "user")
  /\ pc' = "top"
  /\ UNCHANGED <<runVars, turn, streamVars, compactVars, usage, abortVars, terminal>>

\* A block without a reason is spent and lets the run complete.
HooksBlockBare(k) ==
  /\ pc = "hooks"
  /\ ~aborted
  /\ k \in Unfired
  /\ StopHooks[k] \in MayOmitReason
  /\ Applies(StopHooks[k])
  /\ fired' = fired \cup Judged(k) \cup {StopHooks[k]}
  /\ End("completed")
  /\ UNCHANGED <<messages, runVars, turn, streamVars, compactVars, usage, abortVars>>

\* executeToolUses has answered every call; the results go back as one message.
\* Mutant: an aborted turn is settled before its results are recorded.
ToolsReturnDropped ==
  /\ pc = "tools"
  /\ messages' = IF aborted THEN messages ELSE Append(messages, "results")
  /\ IF aborted THEN SettleAbort(quotaHit)
     ELSE IF turn >= MaxTurns THEN End("max_turns")
     ELSE pc' = "top" /\ UNCHANGED terminal
  /\ UNCHANGED <<runVars, turn, streamVars, compactVars, usage, fired, abortVars>>

ToolsReturn ==
  /\ pc = "tools"
  /\ messages' = Append(messages, "results")
  /\ IF turn >= MaxTurns THEN End("max_turns")
     ELSE pc' = "top" /\ UNCHANGED terminal
  /\ UNCHANGED <<runVars, turn, streamVars, compactVars, usage, fired, abortVars>>

\* A paused run is resumed: a new run over the frozen transcript, verbatim, with
\* the session's anchor if it still fits.
Resume ==
  /\ pc = "ended"
  /\ terminal = "paused"
  /\ run < MaxRuns
  /\ run' = run + 1
  /\ initialLen' = Len(messages)
  /\ turn' = 0
  /\ pc' = "top"
  /\ attempt' = 0
  /\ text' = FALSE
  /\ shown' = {}
  /\ boundary' = IF Restorable(messages, anchor) THEN anchor ELSE 0
  /\ target' = 0
  /\ usage' = 0
  /\ lastAttempt' = 0
  /\ dipped' = FALSE
  /\ fired' = {}
  /\ aborted' = FALSE
  /\ quotaHit' = FALSE
  /\ terminal' = "none"
  /\ UNCHANGED <<messages, anchor>>

-----------------------------------------------------------------------------

\* What the loop does by itself or once the model, a hook, a tool or a timer
\* answers.
LoopStep ==
  \/ AbortedAtTop
  \/ \E tokens \in Tokens : StartTurn(tokens) \/ NothingToFold(tokens) \/ Fold(tokens)
  \/ SummaryArrives
  \/ \E quota \in BOOLEAN : SummaryFails(quota)
  \/ AbortedInStream
  \/ StreamText
  \/ \E tokens \in Tokens : StreamEndsWithCalls(tokens)
  \/ \E tokens \in Tokens, reason \in {"completed", "refusal", "max_output_tokens"} :
       StreamEndsWithReply(tokens, reason)
  \/ \E error \in {"rate", "quota", "fatal", "broken"} : StreamFails(error)
  \/ Retry
  \/ AbortedInHooks
  \/ HooksPass
  \/ \E k \in DOMAIN StopHooks : HooksBlock(k) \/ HooksBlockBare(k)
  \/ ToolsReturn

Done == pc = "ended" /\ UNCHANGED vars

Next == LoopStep \/ Stop \/ ChildQuota \/ JudgeQuota \/ Resume \/ Done

Spec == Init /\ [][Next]_vars

\* Requests answer or fail, hooks and tools return and timers fire.
LiveSpec == Spec /\ WF_vars(LoopStep)

-----------------------------------------------------------------------------
(* Properties *)

(* Every variable keeps its shape. *)
TypeOK ==
  /\ messages \in Seq(Kind)
  /\ initialLen \in 0..Len(messages)
  /\ turn \in Nat
  /\ pc \in Phase
  /\ attempt \in 0..MaxAttempts
  /\ text \in BOOLEAN
  /\ shown \subseteq 1..attempt
  /\ boundary \in 0..Len(messages)
  /\ target \in 0..Len(messages)
  /\ anchor \in 0..initialLen
  /\ usage \in Tokens
  /\ lastAttempt \in Tokens
  /\ dipped \in BOOLEAN
  /\ fired \subseteq Hook
  /\ aborted \in BOOLEAN
  /\ quotaHit \in BOOLEAN
  /\ terminal \in Reason \cup {"none"}
  /\ terminal = "none" <=> pc # "ended"
  /\ run \in Nat

(* A sequence of messages the provider accepts: each turn with tool calls is *)
(* followed by its results, and results follow nothing else.                 *)
Paired(ms) ==
  \A k \in 1..Len(ms) :
    /\ ms[k] = "call" => k < Len(ms) /\ ms[k + 1] = "results"
    /\ ms[k] = "results" => k > 1 /\ ms[k - 1] = "call"

(* Every request is well formed, whatever head the summary replaced: no call *)
(* without its results, no results without their call (compaction.ts: "an    *)
(* orphan tool_result is an API 400").                                       *)
RequestsPaired ==
  pc \in {"stream", "backoff"} =>
    Paired(SubSeq(messages, boundary + 1, Len(messages)))

(* The transcript a pause freezes can be sent again as it stands: it is well *)
(* formed and holds every turn the model finished (IAgentPause: "including   *)
(* every tool_result already collected", "never partial").                   *)
FrozenIsResumable ==
  terminal = "paused" =>
    /\ Paired(messages)
    /\ Cardinality({k \in (initialLen + 1)..Len(messages) : messages[k] \in Assistant})
         \in {turn - 1, turn}

(* Running into the quota ends the run as a pause and nothing else, and any  *)
(* other pause is a rate limit that survived the whole retry ladder.         *)
QuotaPauses ==
  terminal # "none" =>
    /\ quotaHit => terminal = "paused"
    /\ terminal = "paused" => quotaHit \/ attempt = MaxAttempts

(* No text is streamed twice: of the attempts of a turn at most one reached  *)
(* the reader (the comment on the inner streaming generator).                *)
TextShownOnce == Cardinality(shown) <= 1

(* The brake converges: with no tools on offer every further turn costs a    *)
(* Stop hook, so the run never ends in max_turns.                            *)
BrakeConverges ==
  /\ turn <= HardBrakeTurn + Cardinality(fired)
  /\ terminal # "max_turns"

(* Within a run the summary only ever moves forward over a transcript that   *)
(* is only ever appended to: no message is summarised twice or lost.         *)
ViewOnlyAdvances ==
  [][run' = run => /\ boundary' >= boundary
                   /\ Len(messages') >= Len(messages)
                   /\ SubSeq(messages', 1, Len(messages)) = messages]_vars

(* Every run settles, stopped or not.                                        *)
RunSettles == pc # "ended" ~> pc = "ended"

(* What the provider says of its transcripts (fileSessionsProvider.ts): "the *)
(* model APIs reject a request that contains an empty-content message".      *)
NoEmptyMessageSent ==
  pc \in {"stream", "backoff"} =>
    \A k \in (boundary + 1)..Len(messages) : messages[k] # "empty"

(* What compaction.ts says: the head is folded when real usage approaches    *)
(* the window, and again once usage grew by another quantum - as it has when *)
(* it fell a quantum below the threshold and is back above it.               *)
NearWindowCompacts ==
  (pc = "stream" /\ turn > 1 /\ boundary > 0 /\ usage >= Threshold /\ dipped)
    => lastAttempt = usage
=============================================================================
