---------------------------- MODULE OutputPrune ----------------------------
(***************************************************************************)
(* Tool-output aging (toolOutputPrune.ts): before each request the oldest  *)
(* tool results beyond a protected budget are replaced by stubs, in steps  *)
(* of a quantum, from the growing transcript of a run alone.               *)
(***************************************************************************)
EXTENDS Naturals, Sequences, SequencesExt

CONSTANTS
  Sizes,   \* sizes of a tool result, in some unit of characters
  Width,   \* bound: tool results of one turn
  Turns,   \* bound: turns of the run
  Protect, \* PROTECT_BUDGET_CHARS
  Quantum  \* PRUNE_QUANTUM_CHARS

VARIABLES
  results, \* tool results in call order: [turn, size]
  turns,   \* turns so far
  pruned,  \* positions stubbed in the last request
  aged     \* history: positions stubbed in any request

vars == <<results, turns, pruned, aged>>

Init == results = <<>> /\ turns = 0 /\ pruned = {} /\ aged = {}

Total(rs) == FoldLeft(LAMBDA acc, r : acc + r.size, 0, rs)

\* How much may go: what is over the protected budget, in whole quanta.
Target(rs) ==
  LET over == IF Total(rs) > Protect THEN Total(rs) - Protect ELSE 0
  IN  (over \div Quantum) * Quantum

\* Mutant: the newest message is not spared.
PruneAll(rs, newest) ==
  {i \in 1..Len(rs) : Target(rs) > 0 /\ Total(SubSeq(rs, 1, i)) <= Target(rs)}

\* pruneToolOutputs: oldest first while whole results fit the target, never the newest message.
PruneToolOutputs(rs, newest) ==
  {i \in 1..Len(rs) : Target(rs) > 0 /\ rs[i].turn # newest /\ Total(SubSeq(rs, 1, i)) <= Target(rs)}

\* A turn's results are appended and the next request is prepared.
Turn(sizes) ==
  /\ turns < Turns
  /\ turns' = turns + 1
  /\ results' = results \o [i \in 1..Len(sizes) |-> [turn |-> turns', size |-> sizes[i]]]
  /\ pruned' = PruneToolOutputs(results', turns')
  /\ aged' = aged \cup pruned'

Next == \E n \in 1..Width : \E sizes \in [1..n -> Sizes] : Turn(sizes)

Spec == Init /\ [][Next]_vars

----------------------------------------------------------------------------

TypeOK == turns \in 0..Turns /\ pruned \subseteq 1..Len(results)

\* What aged out stays out, in the order the results came; the newest message is whole;
\* what stays covers the protected budget, and what is kept beyond it is less than a
\* quantum, the result that straddles the target and the newest message.
PruneSettles ==
  LET gone == FoldLeft(LAMBDA acc, i : acc + (IF i \in pruned THEN results[i].size ELSE 0), 0,
                       [i \in 1..Len(results) |-> i])
      newest == Total(SelectSeq(results, LAMBDA r : r.turn = turns))
      largest == CHOOSE s \in Sizes : \A t \in Sizes : t <= s
  IN  /\ aged = pruned
      /\ \A i \in pruned : results[i].turn < turns /\ \A j \in 1..i - 1 : j \in pruned
      /\ pruned # {} => Total(results) - gone >= Protect
      /\ Total(results) - gone < Protect + Quantum + largest + newest
=============================================================================
