------------------------------ MODULE ToolTurn ------------------------------
(***************************************************************************)
(* What `executeToolUses` promises the agent loop about one assistant turn *)
(* at a time, with batches, slots, hooks and permissions hidden: every     *)
(* tool call of the turn ends in exactly one result, results come out in   *)
(* call order, calls overlap only inside an uninterrupted stretch of       *)
(* concurrency-safe calls, and never more than MaxConcurrency at once.     *)
(***************************************************************************)
EXTENDS Integers, Sequences, FiniteSets

CONSTANTS
  Call,            \* the tool calls a model can emit: tool name and input
  Safe,            \* the calls whose tool says isConcurrencySafe(input)
  MaxCalls,        \* bound: tool calls in one turn
  MaxConcurrency   \* calls of one turn that may run at once

VARIABLES
  uses,        \* the calls of the current turn, in call order
  running,     \* indices of the calls whose checks or tool are under way
  finished,    \* indices of the calls that have a result
  delivered    \* how many results the loop has received

vars == <<uses, running, finished, delivered>>

TurnCalls == UNION {[1..n -> Call] : n \in 1..MaxCalls}

Init ==
  /\ uses = <<>>
  /\ running = {}
  /\ finished = {}
  /\ delivered = 0

\* The model answers with a new list of tool calls, once the last is answered.
Ask(us) ==
  /\ delivered = Len(uses)
  /\ uses' = us
  /\ running' = {}
  /\ finished' = {}
  /\ delivered' = 0

\* Call i may run beside call j only if both stand in one stretch of safe calls.
MayRun(i) ==
  /\ i \notin running \cup finished
  /\ \A j \in 1..(i - 1) : j <= delivered \/ \A k \in j..i : uses[k] \in Safe

Start(i) ==
  /\ MayRun(i)
  /\ Cardinality(running) < MaxConcurrency
  /\ running' = running \cup {i}
  /\ UNCHANGED <<uses, finished, delivered>>

\* A call refused before anything of it runs: loop guard, unknown tool, bad input.
Refuse(i) ==
  /\ MayRun(i)
  /\ finished' = finished \cup {i}
  /\ UNCHANGED <<uses, running, delivered>>

Finish(i) ==
  /\ i \in running
  /\ running' = running \ {i}
  /\ finished' = finished \cup {i}
  /\ UNCHANGED <<uses, delivered>>

Deliver ==
  /\ delivered + 1 \in finished
  /\ delivered' = delivered + 1
  /\ UNCHANGED <<uses, running, finished>>

Next ==
  \/ \E us \in TurnCalls : Ask(us)
  \/ \E i \in 1..Len(uses) : Start(i) \/ Refuse(i) \/ Finish(i)
  \/ Deliver

Spec == Init /\ [][Next]_vars
=============================================================================
