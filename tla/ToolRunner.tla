----------------------------- MODULE ToolRunner -----------------------------
(***************************************************************************)
(* `executeToolUses` of src/main/agent/toolRunner.ts: how the tool calls   *)
(* of one assistant turn are split into batches, counted by the run's loop *)
(* guard, started under a slot limit, taken through the PreToolUse hooks,  *)
(* the permission gate and the tool, and answered in call order.           *)
(*                                                                         *)
(* A run is a sequence of turns that share one loop guard.  The steps of a *)
(* call between two awaits are one action; the calls of a concurrent batch *)
(* interleave at the awaits.  A call is abstracted to its loop-guard key   *)
(* (tool name and canonical input); what hooks, gate and tool answer is    *)
(* nondeterministic.                                                       *)
(***************************************************************************)
EXTENDS Integers, Sequences, FiniteSets

CONSTANTS
  Call,            \* loop-guard keys: tool name plus canonical input
  Safe,            \* calls whose tool is known and isConcurrencySafe(input)
  Runnable,        \* calls whose tool is known and whose input validates
  MaxConcurrency,  \* maxToolConcurrency()
  RepeatLimit,     \* REPEATED_CALL_LIMIT of the loop guard
  MaxCalls,        \* bound: tool calls in one turn
  MaxTurns,        \* bound: turns of the run that call tools
  NoCall           \* lastKey before the first call

ASSUME ToolRunnerAssumption ==
  /\ Safe \subseteq Call
  /\ Runnable \subseteq Call
  /\ NoCall \notin Call
  /\ MaxConcurrency \in Nat \ {0}
  /\ RepeatLimit \in Nat \ {0}
  /\ MaxCalls \in Nat
  /\ MaxTurns \in Nat

VARIABLES
  turn,      \* turns started so far
  uses,      \* the tool_use blocks of the current turn
  lo, hi,    \* the current batch is uses[lo..hi]; hi = 0 before the first
  seen,      \* calls of this turn the loop guard has counted (and announced)
  lastKey,   \* loop guard: key of the last call of the run
  count,     \* loop guard: length of its run of identical calls
  blocked,   \* calls of this turn the loop guard refused
  phase,     \* where each call of this turn stands
  active,    \* startWithLimit: slots taken
  waiters,   \* startWithLimit: FIFO of calls waiting for a slot
  outcome,   \* how each settled call ended
  results,   \* the tool_result blocks emitted, in order
  executed,  \* calls whose tool.call was invoked
  refused,   \* calls ended by guard, lookup, validation, hook or gate
  log        \* history: every call of the run, in the order it was counted

guardVars == <<lastKey, count, blocked, log>>
slotVars == <<active, waiters>>
fateVars == <<executed, refused>>
vars == <<turn, uses, lo, hi, seen, lastKey, count, blocked, phase, active,
          waiters, outcome, results, executed, refused, log>>

Index == 1..MaxCalls
TurnCalls == UNION {[1..n -> Call] : n \in 1..MaxCalls}

Phase == {"idle", "waiting", "begin", "hooks", "gate", "tool", "settled"}
InFlight == {i \in Index : phase[i] \in {"begin", "hooks", "gate", "tool"}}

\* A batch of one call bypasses startWithLimit.
Concurrent == lo < hi

-----------------------------------------------------------------------------

Init ==
  /\ turn = 0
  /\ uses = <<>>
  /\ lo = 1
  /\ hi = 0
  /\ seen = 0
  /\ lastKey = NoCall
  /\ count = 0
  /\ blocked = {}
  /\ phase = [i \in Index |-> "idle"]
  /\ active = 0
  /\ waiters = <<>>
  /\ outcome = [i \in Index |-> "none"]
  /\ results = <<>>
  /\ executed = {}
  /\ refused = {}
  /\ log = <<>>

\* The loop hands over the tool_use blocks of its next assistant message.
\* Mutant: the results of the last turn are not cleared.
StartTurnDirty(us) ==
  /\ turn < MaxTurns
  /\ Len(results) = Len(uses)
  /\ turn' = turn + 1
  /\ uses' = us
  /\ lo' = 1
  /\ hi' = 0
  /\ seen' = 0
  /\ phase' = [i \in Index |-> "idle"]
  /\ outcome' = [i \in Index |-> "none"]
  /\ UNCHANGED <<guardVars, slotVars, results, fateVars>>

StartTurn(us) ==
  /\ turn < MaxTurns
  /\ Len(results) = Len(uses)
  /\ turn' = turn + 1
  /\ uses' = us
  /\ lo' = 1
  /\ hi' = 0
  /\ seen' = 0
  /\ blocked' = {}
  /\ phase' = [i \in Index |-> "idle"]
  /\ active' = 0
  /\ waiters' = <<>>
  /\ outcome' = [i \in Index |-> "none"]
  /\ results' = <<>>
  /\ executed' = {}
  /\ refused' = {}
  /\ UNCHANGED <<lastKey, count, log>>

\* partitionBySafety: a batch is an unsafe call alone or a maximal safe stretch.
\* Mutant: an unsafe call closes the stretch it follows instead of standing alone.
IsBatchGlued(i, j) ==
  /\ i <= j
  /\ \A k \in i..(j - 1) : uses[k] \in Safe
  /\ uses[j] \in Safe => j = Len(uses)

IsBatch(i, j) ==
  \/ i = j /\ uses[i] \notin Safe
  \/ /\ i <= j
     /\ \A k \in i..j : uses[k] \in Safe
     /\ j < Len(uses) => uses[j + 1] \notin Safe

\* The generator takes up the next batch once every earlier result is out.
OpenBatch ==
  /\ Len(results) = hi
  /\ hi < Len(uses)
  /\ \E j \in (hi + 1)..Len(uses) :
       /\ IsBatch(hi + 1, j)
       /\ lo' = hi + 1
       /\ hi' = j
  /\ UNCHANGED <<turn, uses, seen, guardVars, phase, slotVars, outcome,
                 results, fateVars>>

\* The loop guard's counter after one more call with this key.
NextCount(key) == IF key = lastKey THEN count + 1 ELSE 1

\* guard.check on the batch's next call, in call order, with its tool_use event.
\* Mutant: a refused call is not counted, so the fourth repeat runs again.
CheckCallForget ==
  /\ seen < hi
  /\ LET i == seen + 1
         n == NextCount(uses[i])
     IN /\ lastKey' = uses[i]
        /\ count' = IF n < RepeatLimit THEN n ELSE 0
        /\ blocked' = IF n < RepeatLimit THEN blocked ELSE blocked \cup {i}
        /\ log' = Append(log, uses[i])
        /\ seen' = i
  /\ UNCHANGED <<turn, uses, lo, hi, phase, slotVars, outcome, results, fateVars>>

CheckCall ==
  /\ seen < hi
  /\ LET i == seen + 1
         n == NextCount(uses[i])
     IN /\ lastKey' = uses[i]
        /\ count' = n
        /\ blocked' = IF n < RepeatLimit THEN blocked ELSE blocked \cup {i}
        /\ log' = Append(log, uses[i])
        /\ seen' = i
  /\ UNCHANGED <<turn, uses, lo, hi, phase, slotVars, outcome, results, fateVars>>

Announced == seen = hi /\ lo <= hi /\ phase[lo] = "idle"

\* A batch of one: runSingleToolUse is awaited directly.
LaunchSingle ==
  /\ Announced
  /\ ~Concurrent
  /\ phase' = [phase EXCEPT ![lo] = "begin"]
  /\ UNCHANGED <<turn, uses, lo, hi, seen, guardVars, slotVars, outcome,
                 results, fateVars>>

\* startWithLimit: every call asks for a slot, in order; the first ones get one.
LastSlot == IF hi - lo < MaxConcurrency THEN hi ELSE lo + MaxConcurrency - 1

LaunchBatch ==
  /\ Announced
  /\ Concurrent
  /\ phase' = [i \in Index |->
       IF i \in lo..LastSlot THEN "begin"
       ELSE IF i \in (LastSlot + 1)..hi THEN "waiting" ELSE phase[i]]
  /\ active' = LastSlot - lo + 1
  /\ waiters' = [k \in 1..(hi - LastSlot) |-> LastSlot + k]
  /\ UNCHANGED <<turn, uses, lo, hi, seen, guardVars, outcome, results, fateVars>>

-----------------------------------------------------------------------------
(* The stages of one call: runSingleToolUse inside startWithLimit's wrapper. *)

\* The call's promise settles; `finally { release() }` hands its slot on.
\* Mutant: the slot is given back and no waiter is woken.
SettleNoWake(i, how) ==
  /\ outcome' = [outcome EXCEPT ![i] = how]
  /\ phase' = [phase EXCEPT ![i] = "settled"]
  /\ active' = IF Concurrent THEN active - 1 ELSE active
  /\ UNCHANGED waiters

\* Mutant: the slot stays taken when a waiter takes it over as well.
SettleTwice(i, how) ==
  /\ outcome' = [outcome EXCEPT ![i] = how]
  /\ IF Concurrent /\ waiters # <<>>
     THEN /\ phase' = [phase EXCEPT ![i] = "settled", ![Head(waiters)] = "begin"]
          /\ waiters' = Tail(waiters)
          /\ active' = active + 1
     ELSE /\ phase' = [phase EXCEPT ![i] = "settled"]
          /\ UNCHANGED <<waiters, active>>

Settle(i, how) ==
  /\ outcome' = [outcome EXCEPT ![i] = how]
  /\ IF Concurrent /\ waiters # <<>>
     THEN /\ phase' = [phase EXCEPT ![i] = "settled", ![Head(waiters)] = "begin"]
          /\ waiters' = Tail(waiters)
          /\ UNCHANGED active          \* active -= 1, then the waiter's += 1
     ELSE /\ phase' = [phase EXCEPT ![i] = "settled"]
          /\ active' = IF Concurrent THEN active - 1 ELSE active
          /\ UNCHANGED waiters

Enter(i, stage) ==
  /\ phase' = [phase EXCEPT ![i] = stage]
  /\ UNCHANGED <<slotVars, outcome>>

callFrame == <<turn, uses, lo, hi, seen, guardVars, results>>

\* A guard-refused call, an unknown tool or an invalid input never gets further.
BeginRefused(i) ==
  /\ phase[i] = "begin"
  /\ i \in blocked \/ uses[i] \notin Runnable
  /\ Settle(i, "error")
  /\ refused' = refused \cup {i}
  /\ UNCHANGED <<callFrame, executed>>

Begin(i) ==
  /\ phase[i] = "begin"
  /\ i \notin blocked
  /\ uses[i] \in Runnable
  /\ Enter(i, "hooks")
  /\ UNCHANGED <<callFrame, fateVars>>

\* runHooksUntilBlock answers allow (or modify, or fails open), or block and no
\* reason: the runner wants both, whatever the hooks' contract says of a block.
HooksAllow(i) ==
  /\ phase[i] = "hooks"
  /\ Enter(i, "gate")
  /\ UNCHANGED <<callFrame, fateVars>>

\* A hook blocks and gives a reason: the call becomes an error result.
HooksBlock(i) ==
  /\ phase[i] = "hooks"
  /\ Settle(i, "error")
  /\ refused' = refused \cup {i}
  /\ UNCHANGED <<callFrame, executed>>

\* permissionGate.check denies or throws.
\* Mutant: the denial is reported and the call goes on (a missing return).
GateRefuseRuns(i) ==
  /\ phase[i] = "gate"
  /\ Enter(i, "tool")
  /\ executed' = executed \cup {i}
  /\ refused' = refused \cup {i}
  /\ UNCHANGED <<callFrame>>

GateRefuse(i) ==
  /\ phase[i] = "gate"
  /\ Settle(i, "error")
  /\ refused' = refused \cup {i}
  /\ UNCHANGED <<callFrame, executed>>

GateAllow(i) ==
  /\ phase[i] = "gate"
  /\ Enter(i, "tool")
  /\ executed' = executed \cup {i}
  /\ UNCHANGED <<callFrame, refused>>

\* tool.call returns, with isError or without, or throws (an error as well).
ToolReturns(i, how) ==
  /\ phase[i] = "tool"
  /\ Settle(i, how)
  /\ UNCHANGED <<callFrame, fateVars>>

-----------------------------------------------------------------------------

\* The next result in call order, as soon as its promise has settled.
\* Mutant: whichever call has settled is answered first.
DeliverAny ==
  /\ Len(results) < hi
  /\ \E n \in lo..hi :
       /\ phase[n] = "settled"
       /\ \A k \in 1..Len(results) : results[k].use # n
       /\ results' = Append(results, [use |-> n, isError |-> outcome[n] = "error"])
  /\ UNCHANGED <<turn, uses, lo, hi, seen, guardVars, phase, slotVars, outcome,
                 fateVars>>

Deliver ==
  /\ Len(results) < hi
  /\ LET n == Len(results) + 1
     IN /\ phase[n] = "settled"
        /\ results' = Append(results, [use |-> n, isError |-> outcome[n] = "error"])
  /\ UNCHANGED <<turn, uses, lo, hi, seen, guardVars, phase, slotVars, outcome,
                 fateVars>>

\* What the code does by itself, and what it waits for.
Runner == OpenBatch \/ CheckCall \/ LaunchSingle \/ LaunchBatch \/ Deliver

CallStep(i) ==
  \/ BeginRefused(i)
  \/ Begin(i)
  \/ HooksAllow(i)
  \/ HooksBlock(i)
  \/ GateRefuse(i)
  \/ GateAllow(i)
  \/ \E how \in {"ok", "error"} : ToolReturns(i, how)

\* The run is over: nothing of the code is left to happen.
Done == turn = MaxTurns /\ Len(results) = Len(uses) /\ UNCHANGED vars

Next ==
  \/ \E us \in TurnCalls : StartTurn(us)
  \/ Runner
  \/ \E i \in Index : CallStep(i)
  \/ Done

Spec == Init /\ [][Next]_vars

\* The runtime resumes ready continuations; hooks time out, the gate is
\* answered or aborted and tools return, each call on its own.
LiveSpec == Spec /\ WF_vars(Runner) /\ \A i \in Index : WF_vars(CallStep(i))

-----------------------------------------------------------------------------
(* Properties *)

(* Every variable keeps its shape; a batch is a range of the turn's calls. *)
TypeOK ==
  /\ turn \in 0..MaxTurns
  /\ uses \in Seq(Call) /\ Len(uses) <= MaxCalls
  /\ hi \in 0..Len(uses) /\ lo \in 1..(hi + 1)
  /\ seen \in 0..hi
  /\ lastKey \in Call \cup {NoCall}
  /\ count \in Nat
  /\ blocked \subseteq Index
  /\ phase \in [Index -> Phase]
  /\ active \in Int
  /\ waiters \in Seq(Index)
  /\ outcome \in [Index -> {"none", "ok", "error"}]
  /\ results \in Seq([use : Index, isError : BOOLEAN]) /\ Len(results) <= hi
  /\ executed \subseteq Index
  /\ refused \subseteq Index
  /\ log \in Seq(Call)

(* startWithLimit neither leaks a slot nor forgets a waiter: the counter is  *)
(* the number of calls under way, never above the cap, and a call waits only *)
(* while every slot is taken.                                                *)
SlotsAccounted ==
  /\ Concurrent => active = Cardinality(InFlight)
  /\ Cardinality(InFlight) <= MaxConcurrency
  /\ waiters # <<>> => active = MaxConcurrency
  /\ \A i \in Index : phase[i] = "waiting" <=> \E k \in DOMAIN waiters : waiters[k] = i

(* Two calls are under way together only inside one stretch of               *)
(* concurrency-safe calls, and only once all calls before the stretch have   *)
(* been answered (partitionBySafety and the batch loop).                     *)
UnsafeRunsAlone ==
  \A i, j \in InFlight : i < j =>
    /\ \A k \in i..j : uses[k] \in Safe
    /\ \A k \in 1..(i - 1) : k <= Len(results) \/ uses[k] \in Safe

(* The loop guard refuses a call exactly when the RepeatLimit last calls of  *)
(* the run, refused ones included, whatever batch or turn they were in, are  *)
(* the same call; a refused call never reaches its tool.                     *)
Repeats(calls, p) ==
  p >= RepeatLimit /\ \A k \in (p - RepeatLimit + 1)..p : calls[k] = calls[p]

GuardExact ==
  /\ \A i \in 1..seen : i \in blocked <=> Repeats(log, Len(log) - seen + i)
  /\ blocked \cap executed = {}

(* A call reaches its tool only if nothing refused it, a refused call ends   *)
(* as an error, and a result that is no error comes from a tool that ran.    *)
OnlyClearedCallsRun ==
  /\ executed \cap refused = {}
  /\ \A k \in 1..Len(results) : LET i == results[k].use
                                 IN /\ phase[i] = "settled"
                                    /\ i \in refused => results[k].isError
                                    /\ ~results[k].isError => i \in executed

(* The turn as the agent loop sees it: ToolTurn, with a call `running` from  *)
(* its first hook to its answer.                                             *)
Turn == INSTANCE ToolTurn WITH
  running <- {i \in Index : phase[i] \in {"hooks", "gate", "tool"}},
  finished <- {i \in Index : phase[i] = "settled"},
  delivered <- Len(results)

TurnSpec == Turn!Spec

(* Every turn the loop hands over is answered in full.                       *)
TurnCompletes == Len(results) < Len(uses) ~> Len(results) = Len(uses)
=============================================================================
