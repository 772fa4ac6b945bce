-------------------------- MODULE ToolRunnerProofs --------------------------
(***************************************************************************)
(* TLAPS proofs about ToolRunner, for any set of calls, any concurrency    *)
(* cap, any repeat limit and any bounds.  The invariants are proved in     *)
(* layers, each using the ones before it:                                  *)
(*   TypeOK -> Shape (batches and phases) -> Slots, Guard, Fate -> ToolTurn *)
(***************************************************************************)
EXTENDS ToolRunner, TLAPS, FiniteSetTheorems, SequenceTheorems

(* The three ways in which a step of one call changes the scheduler. *)
LEMMA SettleType ==
  ASSUME TypeOK, NEW i \in Index, NEW how \in {"ok", "error"}, Settle(i, how)
  PROVE  /\ phase' \in [Index -> Phase]
         /\ outcome' \in [Index -> {"none", "ok", "error"}]
         /\ waiters' \in Seq(Index)
         /\ active' \in Int
<1>1. CASE Concurrent /\ waiters # <<>>
  <2>1. Head(waiters) \in Index /\ Tail(waiters) \in Seq(Index)
    BY <1>1 DEF TypeOK
  <2>2. QED
    BY <1>1, <2>1 DEF TypeOK, Settle, Phase
<1>2. CASE ~(Concurrent /\ waiters # <<>>)
  BY <1>2 DEF TypeOK, Settle, Phase
<1>3. QED
  BY <1>1, <1>2

LEMMA TurnCallsType ==
  ASSUME ToolRunnerAssumption, NEW us \in TurnCalls
  PROVE  us \in Seq(Call) /\ Len(us) \in 1..MaxCalls
<1>1. PICK n \in 1..MaxCalls : us \in [1..n -> Call]
  BY DEF TurnCalls
<1>2. n \in Nat /\ MaxCalls \in Nat
  BY <1>1 DEF ToolRunnerAssumption
<1>3. us \in Seq(Call) /\ Len(us) = n
  BY <1>1, <1>2
<1>4. QED
  BY <1>3

(* Each step of a call keeps the types. *)
LEMMA CallType ==
  ASSUME TypeOK, NEW i \in Index, CallStep(i)
  PROVE  TypeOK'
<1> USE DEF callFrame, guardVars, slotVars, fateVars, Index
<1>1. CASE BeginRefused(i)
  BY <1>1, SettleType DEF TypeOK, BeginRefused
<1>2. CASE Begin(i)
  BY <1>2 DEF TypeOK, Begin, Enter, Phase
<1>3. CASE HooksAllow(i)
  BY <1>3 DEF TypeOK, HooksAllow, Enter, Phase
<1>4. CASE HooksBlock(i)
  BY <1>4, SettleType DEF TypeOK, HooksBlock
<1>6. CASE GateRefuse(i)
  BY <1>6, SettleType DEF TypeOK, GateRefuse
<1>7. CASE GateAllow(i)
  BY <1>7 DEF TypeOK, GateAllow, Enter, Phase
<1>8. ASSUME NEW how \in {"ok", "error"}, ToolReturns(i, how)
      PROVE  TypeOK'
  BY <1>8, SettleType DEF TypeOK, ToolReturns
<1>9. QED
  BY <1>1, <1>2, <1>3, <1>4, <1>6, <1>7, <1>8 DEF CallStep

(* The last call that gets a slot at once is one of the batch.               *)
LEMMA LaunchRange ==
  ASSUME ToolRunnerAssumption, TypeOK, LaunchBatch
  PROVE  LastSlot \in lo..hi /\ lo \in Nat /\ hi \in Nat
BY DEF ToolRunnerAssumption, TypeOK, LaunchBatch, Concurrent, LastSlot

(* The waiters startWithLimit queues are calls of the batch. *)
LEMMA LaunchType ==
  ASSUME ToolRunnerAssumption, TypeOK, LaunchBatch
  PROVE  /\ phase' \in [Index -> Phase]
         /\ waiters' \in Seq(Index)
         /\ active' \in Int
         /\ LastSlot \in lo..hi
<1>1. LastSlot \in lo..hi
  BY LaunchRange
<1>2. \A k \in 1..(hi - LastSlot) : LastSlot + k \in Index
  BY <1>1 DEF TypeOK, Index
<1>3. waiters' \in Seq(Index)
  <2>1. hi - LastSlot \in Nat
    BY <1>1 DEF TypeOK
  <2>2. QED
    BY <1>2, <2>1, IsASeq DEF LaunchBatch
<1>4. phase' \in [Index -> Phase]
  BY DEF TypeOK, LaunchBatch, Phase
<1>5. QED
  BY <1>1, <1>3, <1>4 DEF TypeOK, LaunchBatch

LEMMA TypeInductive ==
  ASSUME ToolRunnerAssumption, TypeOK, [Next]_vars
  PROVE  TypeOK'
<1> USE DEF guardVars, slotVars, fateVars
<1>1. ASSUME NEW us \in TurnCalls, StartTurn(us)
      PROVE  TypeOK'
  <2>1. us \in Seq(Call) /\ Len(us) \in 1..MaxCalls
    BY TurnCallsType
  <2>2. turn' \in 0..MaxTurns
    BY <1>1 DEF TypeOK, StartTurn, ToolRunnerAssumption
  <2>3. QED
    BY <1>1, <2>1, <2>2 DEF TypeOK, StartTurn, Phase
<1>2. CASE OpenBatch
  BY <1>2 DEF TypeOK, OpenBatch
<1>3. CASE CheckCall
  <2>1. seen + 1 \in Index /\ uses[seen + 1] \in Call
    BY <1>3 DEF TypeOK, CheckCall, Index
  <2>2. NextCount(uses[seen + 1]) \in Nat
    BY DEF TypeOK, NextCount
  <2>3. QED
    BY <1>3, <2>1, <2>2 DEF TypeOK, CheckCall
<1>4. CASE LaunchSingle
  BY <1>4 DEF TypeOK, LaunchSingle, Phase
<1>5. CASE LaunchBatch
  BY <1>5, LaunchType DEF TypeOK, LaunchBatch
<1>6. CASE Deliver
  BY <1>6 DEF TypeOK, Deliver, Index
<1>7. ASSUME NEW i \in Index, CallStep(i)
      PROVE  TypeOK'
  BY <1>7, CallType
<1>8. CASE UNCHANGED vars
  BY <1>8 DEF TypeOK, vars, Index
<1>9. QED
  BY <1>1, <1>2, <1>3, <1>4, <1>5, <1>6, <1>7, <1>8 DEF Next, Runner, Done

(* The runner's variables keep their shape in every run. *)
THEOREM TypeCorrect == Spec => []TypeOK
<1> USE ToolRunnerAssumption
<1>1. Init => TypeOK
  BY DEF Init, TypeOK, ToolRunnerAssumption, Index, Phase
<1>2. TypeOK /\ [Next]_vars => TypeOK'
  BY TypeInductive
<1>3. QED
  BY <1>1, <1>2, PTL DEF Spec

-----------------------------------------------------------------------------
(* Batches and phases.  Everything before the current batch is settled and *)
(* answered, everything after it idle; a batch is launched as a whole; the *)
(* waiter queue holds the waiting calls, each once.                        *)
Waiting(i) == phase[i] = "waiting"

BatchShape ==
  /\ hi > 0 => lo <= hi /\ IsBatch(lo, hi)
  /\ lo - 1 <= seen
  /\ lo - 1 <= Len(results)

PhaseShape ==
  /\ \A i \in Index : i < lo => phase[i] = "settled"
  /\ \A i \in Index : i > hi => phase[i] = "idle"
  /\ \A i, j \in lo..hi : phase[i] = "idle" => phase[j] = "idle"
  /\ \A i \in lo..hi : phase[i] # "idle" => seen = hi

ResultShape ==
  \A k \in 1..Len(results) :
    /\ phase[k] = "settled"
    /\ results[k] = [use |-> k, isError |-> outcome[k] = "error"]

WaiterShape ==
  /\ \A i \in Index : Waiting(i) <=> \E k \in 1..Len(waiters) : waiters[k] = i
  /\ \A k, l \in 1..Len(waiters) : waiters[k] = waiters[l] => k = l
  /\ waiters # <<>> => Concurrent

Shape == BatchShape /\ PhaseShape /\ ResultShape /\ WaiterShape

(* What every step of a call has in common: a call under way moves on, and   *)
(* possibly the first waiter with it.                                        *)
CallFrame == UNCHANGED <<turn, uses, lo, hi, seen, lastKey, count, blocked, log, results>>

LEMMA InBatch ==
  ASSUME TypeOK, Shape, NEW i \in Index, phase[i] \notin {"idle", "settled"}
  PROVE  i \in lo..hi /\ i > Len(results) /\ seen = hi
<1>1. i \in lo..hi
  BY DEF TypeOK, Shape, PhaseShape, Index
<1>2. i > Len(results)
  <2>1. Len(results) \in Nat /\ i \in Int /\ i >= 1
    BY DEF TypeOK, Index
  <2>2. i \notin 1..Len(results)
    BY DEF Shape, ResultShape
  <2>3. QED
    BY <2>1, <2>2
<1>3. QED
  BY <1>1, <1>2 DEF Shape, PhaseShape

LEMMA EnterShape ==
  ASSUME TypeOK, Shape, NEW i \in InFlight, NEW stage \in {"hooks", "gate", "tool"},
         Enter(i, stage), CallFrame
  PROVE  Shape'
<1> USE DEF InFlight, CallFrame
<1>1. i \in lo..hi /\ i > Len(results) /\ seen = hi
  BY InBatch
<1>2. phase' = [phase EXCEPT ![i] = stage] /\ waiters' = waiters /\ outcome' = outcome
  BY DEF Enter, slotVars
<1>3. BatchShape'
  BY DEF Shape, BatchShape, IsBatch
<1>4. PhaseShape'
  BY <1>1, <1>2 DEF TypeOK, Shape, PhaseShape, Index
<1>5. ResultShape'
  BY <1>1, <1>2 DEF TypeOK, Shape, ResultShape, Index
<1>6. WaiterShape'
  BY <1>1, <1>2 DEF TypeOK, Shape, WaiterShape, Waiting, Concurrent
<1>7. QED
  BY <1>3, <1>4, <1>5, <1>6 DEF Shape

LEMMA SettleShape ==
  ASSUME TypeOK, Shape, NEW i \in InFlight, NEW how \in {"ok", "error"},
         Settle(i, how), CallFrame
  PROVE  Shape'
<1> USE DEF InFlight, CallFrame
<1>1. i \in lo..hi /\ i > Len(results) /\ seen = hi
  BY InBatch
<1>2. BatchShape'
  BY DEF Shape, BatchShape, IsBatch
<1>3. outcome' = [outcome EXCEPT ![i] = how]
  BY DEF Settle
<1>4. CASE Concurrent /\ waiters # <<>>
  <2> DEFINE h == Head(waiters)
  <2>1. /\ phase' = [phase EXCEPT ![i] = "settled", ![h] = "begin"]
        /\ waiters' = Tail(waiters)
    BY <1>4 DEF Settle
  <2>2. h \in Index /\ h = waiters[1] /\ Len(waiters) \in Nat \ {0}
    BY <1>4 DEF TypeOK
  <2>3. phase[h] = "waiting" /\ h # i
    BY <2>2 DEF Shape, WaiterShape, Waiting
  <2>4. h \in lo..hi /\ h > Len(results)
    BY <2>2, <2>3, InBatch
  <2>5. PhaseShape'
    <3>1. \A j \in Index : phase'[j] = IF j = h THEN "begin"
                                       ELSE IF j = i THEN "settled" ELSE phase[j]
      BY <2>1, <2>3 DEF TypeOK
    <3>2. lo..hi \subseteq Index /\ i \in lo..hi /\ h \in lo..hi
      <4>1. lo \in Int /\ lo >= 1 /\ hi \in Int /\ hi <= Len(uses)
        BY DEF TypeOK
      <4>2. Len(uses) \in Int /\ Len(uses) <= MaxCalls
        BY DEF TypeOK
      <4>3. MaxCalls \in Int
        BY ToolRunnerAssumption
      <4>4. QED
        BY <1>1, <2>4, <4>1, <4>2, <4>3 DEF Index
    <3>3. lo' = lo /\ hi' = hi /\ seen' = seen
      OBVIOUS
    <3>4. \A j \in Index : (j < lo \/ j > hi) => phase'[j] = phase[j]
      <4>1. lo \in Int /\ hi \in Int
        BY DEF TypeOK
      <4>2. \A j \in Index : (j < lo \/ j > hi) => j # h /\ j # i
        BY <3>2, <4>1
      <4>3. QED
        BY <3>1, <4>2
    <3>5. \A j \in lo..hi : phase'[j] # "idle"
      BY <2>3, <3>1, <3>2 DEF Shape, PhaseShape
    <3>6. QED
      BY <1>1, <3>2, <3>3, <3>4, <3>5 DEF Shape, PhaseShape
  <2>6. ResultShape'
    BY <1>1, <1>3, <2>1, <2>4 DEF TypeOK, Shape, ResultShape, Index
  <2>7. /\ Len(waiters') = Len(waiters) - 1
        /\ \A k \in 1..Len(waiters') : waiters'[k] = waiters[k + 1]
    BY <2>1, <2>2 DEF TypeOK
  <2>8. \A j \in Index : Waiting(j)' <=> Waiting(j) /\ j # h
    BY <2>1, <2>3 DEF TypeOK, Waiting
  <2>9. \A j \in Index : Waiting(j)' <=> \E k \in 1..Len(waiters') : waiters'[k] = j
    <3> SUFFICES ASSUME NEW j \in Index
                 PROVE  Waiting(j)' <=> \E k \in 1..Len(waiters') : waiters'[k] = j
      OBVIOUS
    <3>1. ASSUME Waiting(j)'
          PROVE  \E k \in 1..Len(waiters') : waiters'[k] = j
      <4>1. PICK l \in 1..Len(waiters) : waiters[l] = j
        BY <2>8, <3>1 DEF Shape, WaiterShape
      <4>2. l # 1
        BY <2>2, <2>8, <3>1, <4>1
      <4>3. l - 1 \in 1..Len(waiters') /\ waiters'[l - 1] = j
        BY <2>2, <2>7, <4>1, <4>2
      <4>4. QED
        BY <4>3
    <3>2. ASSUME NEW k \in 1..Len(waiters'), waiters'[k] = j
          PROVE  Waiting(j)'
      <4>1. k + 1 \in 1..Len(waiters) /\ waiters[k + 1] = j /\ k + 1 # 1
        BY <2>2, <2>7, <3>2
      <4>2. j # h
        BY <2>2, <4>1 DEF Shape, WaiterShape
      <4>3. QED
        BY <2>8, <4>1, <4>2 DEF Shape, WaiterShape
    <3>3. QED
      BY <3>1, <3>2
  <2>10. \A k, l \in 1..Len(waiters') : waiters'[k] = waiters'[l] => k = l
    <3> SUFFICES ASSUME NEW k \in 1..Len(waiters'), NEW l \in 1..Len(waiters'),
                        waiters'[k] = waiters'[l]
                 PROVE  k = l
      OBVIOUS
    <3>1. k + 1 \in 1..Len(waiters) /\ l + 1 \in 1..Len(waiters)
      BY <2>2, <2>7
    <3>2. k + 1 = l + 1
      BY <2>7, <3>1 DEF Shape, WaiterShape
    <3>3. QED
      BY <3>2
  <2>11. WaiterShape'
    BY <1>4, <2>9, <2>10 DEF WaiterShape, Concurrent
  <2>12. QED
    BY <1>2, <2>5, <2>6, <2>11 DEF Shape
<1>5. CASE ~(Concurrent /\ waiters # <<>>)
  <2>1. phase' = [phase EXCEPT ![i] = "settled"] /\ waiters' = waiters
    BY <1>5 DEF Settle
  <2>2. PhaseShape'
    BY <1>1, <2>1 DEF TypeOK, Shape, PhaseShape, Index
  <2>3. ResultShape'
    <3>1. \A k \in 1..Len(results) : k \in Index /\ k # i
      <4>1. /\ Len(results) \in Int /\ Len(results) <= hi
            /\ hi \in Int /\ hi <= Len(uses)
            /\ Len(uses) \in Int /\ Len(uses) <= MaxCalls
        BY DEF TypeOK
      <4>2. MaxCalls \in Int
        BY ToolRunnerAssumption
      <4>3. QED
        BY <1>1, <4>1, <4>2 DEF Index
    <3>2. \A k \in 1..Len(results) : phase'[k] = phase[k] /\ outcome'[k] = outcome[k]
      BY <1>3, <2>1, <3>1 DEF TypeOK
    <3>3. results' = results
      OBVIOUS
    <3>4. ResultShape
      BY DEF Shape
    <3>5. QED
      BY <3>2, <3>3, <3>4 DEF ResultShape
  <2>4. WaiterShape'
    BY <1>1, <2>1 DEF TypeOK, Shape, WaiterShape, Waiting, Concurrent
  <2>5. QED
    BY <1>2, <2>2, <2>3, <2>4 DEF Shape
<1>6. QED
  BY <1>4, <1>5

(* The steps that are not a step of one call. *)
LEMMA OpenShape ==
  ASSUME ToolRunnerAssumption, TypeOK, Shape, OpenBatch
  PROVE  Shape'
<1> USE DEF guardVars, slotVars, fateVars
<1>1. PICK j \in (hi + 1)..Len(uses) : IsBatch(hi + 1, j) /\ lo' = hi + 1 /\ hi' = j
  BY DEF OpenBatch
<1>2. /\ hi \in Nat /\ j \in Nat /\ j <= Len(uses) /\ Len(uses) <= MaxCalls
      /\ Len(uses) \in Nat /\ lo \in Nat /\ lo >= 1 /\ seen \in Nat /\ seen <= hi
  BY <1>1 DEF TypeOK
<1>3. MaxCalls \in Nat
  BY DEF ToolRunnerAssumption
<1>4. \A i \in Index : i <= hi => phase[i] = "settled"
  <2>1. \A i \in Index : i <= hi => i \in 1..Len(results)
    BY <1>2 DEF OpenBatch, Index
  <2>2. QED
    BY <2>1 DEF Shape, ResultShape
<1>5. seen = hi
  <2>1. CASE hi = 0
    BY <1>2, <2>1
  <2>2. CASE hi > 0
    <3>1. hi \in lo..hi /\ hi \in Index
      BY <1>2, <1>3, <2>2 DEF Shape, BatchShape, Index
    <3>2. phase[hi] # "idle"
      BY <1>4, <3>1, <1>2
    <3>3. QED
      BY <3>1, <3>2 DEF Shape, PhaseShape
  <2>3. QED
    BY <1>2, <2>1, <2>2
<1>6. waiters = <<>>
  <2>1. SUFFICES ASSUME waiters # <<>> PROVE FALSE
    OBVIOUS
  <2>2. Len(waiters) \in Nat \ {0} /\ waiters[1] \in Index
    BY <2>1 DEF TypeOK
  <2>3. phase[waiters[1]] = "waiting"
    BY <2>2 DEF Shape, WaiterShape, Waiting
  <2>4. QED
    BY <1>2, <1>4, <2>2, <2>3 DEF Shape, PhaseShape, Index
<1>7. UNCHANGED <<phase, outcome, results, waiters, seen, uses>>
  BY DEF OpenBatch
<1>8. BatchShape'
  BY <1>1, <1>2, <1>5, <1>7 DEF OpenBatch, BatchShape, IsBatch
<1>9. \A i \in Index : i > hi => phase[i] = "idle"
  BY DEF Shape, PhaseShape
<1>10. PhaseShape'
  <2>1. \A i \in (hi + 1)..j : i \in Index /\ i > hi
    BY <1>2, <1>3 DEF Index
  <2>2. \A i \in Index : (i < hi + 1 => i <= hi) /\ (i > j => i > hi)
    BY <1>1, <1>2 DEF Index
  <2>3. QED
    BY <1>1, <1>4, <1>7, <1>9, <2>1, <2>2 DEF PhaseShape
<1>11. ResultShape'
  BY <1>7 DEF Shape, ResultShape
<1>12. WaiterShape'
  BY <1>6, <1>7 DEF Shape, WaiterShape, Waiting
<1>13. QED
  BY <1>8, <1>10, <1>11, <1>12 DEF Shape

LEMMA LaunchBatchShape ==
  ASSUME ToolRunnerAssumption, TypeOK, Shape, LaunchBatch
  PROVE  Shape'
<1> DEFINE ls == LastSlot
<1>1. ls \in lo..hi
  BY LaunchType
<1>2. /\ lo \in Int /\ lo >= 1 /\ hi \in Int /\ ls \in Int /\ lo < hi /\ seen = hi
      /\ hi <= MaxCalls /\ MaxCalls \in Int /\ Len(results) \in Nat /\ lo - 1 <= Len(results)
  BY <1>1, ToolRunnerAssumption
     DEF TypeOK, LaunchBatch, Announced, Concurrent, Shape, BatchShape
<1> HIDE DEF ls
<1>3. \A i \in Index : phase'[i] = IF i \in lo..ls THEN "begin"
                                   ELSE IF i \in (ls + 1)..hi THEN "waiting" ELSE phase[i]
  BY DEF LaunchBatch, ls
<1>4. \A i \in lo..hi : phase[i] = "idle" /\ i \in Index
  BY <1>2 DEF Shape, PhaseShape, LaunchBatch, Announced, Index
<1>5. UNCHANGED <<uses, lo, hi, seen, results, outcome>>
  BY DEF LaunchBatch
<1>6. BatchShape'
  BY <1>5 DEF Shape, BatchShape, IsBatch
<1>7. \A i \in Index : i \notin lo..hi => phase'[i] = phase[i]
  BY <1>1, <1>2, <1>3 DEF Index
<1>8. \A i \in lo..hi : phase'[i] # "idle"
  BY <1>1, <1>2, <1>3, <1>4
<1>9. PhaseShape'
  <2>1. \A i \in Index : (i < lo \/ i > hi) => i \notin lo..hi
    BY <1>2 DEF Index
  <2>2. QED
    BY <1>2, <1>5, <1>7, <1>8, <2>1 DEF Shape, PhaseShape
<1>10. \A k \in 1..Len(results) : k \in Index /\ k \notin lo..hi
  <2>1. \A k \in 1..Len(results) : k \in Index
    BY <1>2 DEF TypeOK, Index
  <2>2. \A k \in 1..Len(results) : phase[k] # "idle"
    BY DEF Shape, ResultShape
  <2>3. QED
    BY <1>4, <2>1, <2>2
<1>11. ResultShape'
  BY <1>5, <1>7, <1>10 DEF Shape, ResultShape
<1>12. \A i \in Index : phase[i] # "waiting"
  <2>1. SUFFICES ASSUME NEW i \in Index, phase[i] = "waiting" PROVE FALSE
    OBVIOUS
  <2>2. i \in lo..hi
    BY <2>1, InBatch
  <2>3. QED
    BY <1>4, <2>1, <2>2
<1>13. /\ Len(waiters') = hi - ls
       /\ \A k \in 1..(hi - ls) : waiters'[k] = ls + k
  BY <1>1, <1>2 DEF LaunchBatch, ls
<1>14. \A i \in Index : Waiting(i)' <=> i \in (ls + 1)..hi
  BY <1>1, <1>2, <1>3, <1>12 DEF Waiting, Index
<1>15. \A i \in Index : Waiting(i)' <=> \E k \in 1..Len(waiters') : waiters'[k] = i
  <2> SUFFICES ASSUME NEW i \in Index
               PROVE  i \in (ls + 1)..hi <=> \E k \in 1..(hi - ls) : ls + k = i
    BY <1>13, <1>14
  <2>1. ASSUME i \in (ls + 1)..hi
        PROVE  \E k \in 1..(hi - ls) : ls + k = i
    <3>1. i - ls \in 1..(hi - ls) /\ ls + (i - ls) = i
      BY <1>2, <2>1
    <3>2. QED
      BY <3>1
  <2>2. ASSUME NEW k \in 1..(hi - ls), ls + k = i
        PROVE  i \in (ls + 1)..hi
    BY <1>2, <2>2
  <2>3. QED
    BY <2>1, <2>2
<1>16. \A k, l \in 1..Len(waiters') : waiters'[k] = waiters'[l] => k = l
  BY <1>2, <1>13
<1>17. WaiterShape'
  BY <1>2, <1>5, <1>15, <1>16 DEF WaiterShape, Concurrent
<1>18. QED
  BY <1>6, <1>9, <1>11, <1>17 DEF Shape

LEMMA CheckShape ==
  ASSUME TypeOK, Shape, CheckCall
  PROVE  Shape'
<1>1. UNCHANGED <<uses, lo, hi, phase, outcome, results, waiters>> /\ seen' = seen + 1
  BY DEF CheckCall, slotVars
<1>2. seen \in Nat /\ hi \in Nat /\ lo \in Nat /\ seen < hi
  BY DEF TypeOK, CheckCall
<1>3. \A i \in lo..hi : phase[i] = "idle"
  BY <1>2 DEF Shape, PhaseShape
<1>4. QED
  BY <1>1, <1>2, <1>3
     DEF Shape, BatchShape, IsBatch, PhaseShape, ResultShape, WaiterShape, Waiting, Concurrent

LEMMA LaunchSingleShape ==
  ASSUME TypeOK, Shape, LaunchSingle
  PROVE  Shape'
<1>1. /\ UNCHANGED <<uses, lo, hi, seen, outcome, results, waiters>>
      /\ phase' = [phase EXCEPT ![lo] = "begin"]
      /\ lo = hi /\ seen = hi /\ phase[lo] = "idle"
  BY DEF LaunchSingle, slotVars, Announced, Concurrent, TypeOK
<1>2. /\ lo \in Int /\ lo >= 1 /\ lo <= MaxCalls /\ MaxCalls \in Int
      /\ Len(results) \in Nat /\ Len(results) <= hi
  BY <1>1, ToolRunnerAssumption DEF TypeOK
<1>3. lo \in Index /\ lo..hi = {lo}
  BY <1>1, <1>2 DEF Index
<1>4. \A i \in Index : phase'[i] = IF i = lo THEN "begin" ELSE phase[i]
  BY <1>1, <1>3 DEF TypeOK
<1>5. BatchShape'
  BY <1>1 DEF Shape, BatchShape, IsBatch
<1>6. PhaseShape'
  BY <1>1, <1>2, <1>3, <1>4 DEF Shape, PhaseShape, Index
<1>7. ResultShape'
  <2>1. \A k \in 1..Len(results) : k \in Index
    BY <1>1, <1>2 DEF Index
  <2>2. \A k \in 1..Len(results) : phase[k] = "settled" /\ k # lo
    BY <1>1 DEF Shape, ResultShape
  <2>3. QED
    BY <1>1, <1>4, <2>1, <2>2 DEF Shape, ResultShape
<1>8. WaiterShape'
  BY <1>1, <1>4 DEF Shape, WaiterShape, Waiting, Concurrent
<1>9. QED
  BY <1>5, <1>6, <1>7, <1>8 DEF Shape

LEMMA DeliverShape ==
  ASSUME TypeOK, Shape, Deliver
  PROVE  Shape'
<1> DEFINE n == Len(results) + 1
           r == [use |-> n, isError |-> outcome[n] = "error"]
<1>1. /\ UNCHANGED <<uses, lo, hi, seen, phase, outcome, waiters>>
      /\ results' = Append(results, r) /\ phase[n] = "settled"
  BY DEF Deliver, slotVars
<1>2. /\ Len(results) \in Nat /\ Len(results') = Len(results) + 1 /\ results'[n] = r
      /\ \A k \in 1..Len(results) : results'[k] = results[k]
  BY <1>1, TypeInductive, ToolRunnerAssumption DEF TypeOK, Next, Runner
<1>3. BatchShape'
  BY <1>1, <1>2 DEF Shape, BatchShape, IsBatch, TypeOK
<1>4. ResultShape'
  BY <1>1, <1>2 DEF Shape, ResultShape
<1>5. QED
  BY <1>1, <1>3, <1>4 DEF Shape, PhaseShape, WaiterShape, Waiting, Concurrent

LEMMA StartShape ==
  ASSUME NEW us \in TurnCalls, StartTurn(us)
  PROVE  Shape'
BY DEF StartTurn, Shape, BatchShape, PhaseShape, ResultShape, WaiterShape, Waiting, Index

(* Every step of a call is a refusal or a progress of one call under way. *)
LEMMA CallStepKinds ==
  ASSUME NEW i \in Index, CallStep(i)
  PROVE  /\ i \in InFlight
         /\ CallFrame
         /\ \/ \E stage \in {"hooks", "gate", "tool"} : Enter(i, stage)
            \/ \E how \in {"ok", "error"} : Settle(i, how)
<1> USE DEF InFlight, CallFrame, callFrame, guardVars
<1>1. CASE BeginRefused(i) BY <1>1 DEF BeginRefused
<1>2. CASE Begin(i) BY <1>2 DEF Begin
<1>3. CASE HooksAllow(i) BY <1>3 DEF HooksAllow
<1>4. CASE HooksBlock(i) BY <1>4 DEF HooksBlock
<1>6. CASE GateRefuse(i) BY <1>6 DEF GateRefuse
<1>7. CASE GateAllow(i) BY <1>7 DEF GateAllow
<1>8. CASE \E how \in {"ok", "error"} : ToolReturns(i, how) BY <1>8 DEF ToolReturns
<1>9. QED BY <1>1, <1>2, <1>3, <1>4, <1>6, <1>7, <1>8 DEF CallStep

LEMMA ShapeInductive ==
  ASSUME ToolRunnerAssumption, TypeOK, Shape, [Next]_vars
  PROVE  Shape'
<1>1. ASSUME NEW us \in TurnCalls, StartTurn(us) PROVE Shape'
  BY <1>1, StartShape
<1>2. CASE OpenBatch BY <1>2, OpenShape
<1>3. CASE CheckCall BY <1>3, CheckShape
<1>4. CASE LaunchSingle BY <1>4, LaunchSingleShape
<1>5. CASE LaunchBatch BY <1>5, LaunchBatchShape
<1>6. CASE Deliver BY <1>6, DeliverShape
<1>7. ASSUME NEW i \in Index, CallStep(i) PROVE Shape'
  BY <1>7, CallStepKinds, EnterShape, SettleShape
<1>8. CASE UNCHANGED vars
  BY <1>8 DEF vars, Shape, BatchShape, IsBatch, PhaseShape, ResultShape, WaiterShape,
              Waiting, Concurrent
<1>9. QED
  BY <1>1, <1>2, <1>3, <1>4, <1>5, <1>6, <1>7, <1>8 DEF Next, Runner, Done

THEOREM ShapeInvariant == Spec => []Shape
<1>1. Init => Shape
  BY DEF Init, Shape, BatchShape, PhaseShape, ResultShape, WaiterShape, Waiting, Index
<1>2. TypeOK /\ Shape /\ [Next]_vars => Shape'
  BY ShapeInductive, ToolRunnerAssumption
<1>3. QED
  BY <1>1, <1>2, TypeCorrect, PTL DEF Spec

-----------------------------------------------------------------------------
(* Slots.  In a concurrent batch the counter is the number of calls under    *)
(* way; outside one it is zero and at most the single call is under way.     *)
Slots ==
  /\ Concurrent => active = Cardinality(InFlight)
  /\ ~Concurrent => active = 0 /\ InFlight \subseteq {lo}
  /\ active <= MaxConcurrency
  /\ waiters # <<>> => active = MaxConcurrency

LEMMA IndexFinite == IsFiniteSet(Index)
<1>1. MaxCalls \in Int
  BY ToolRunnerAssumption
<1>2. QED
  BY <1>1, FS_Interval DEF Index

LEMMA InFlightFinite == IsFiniteSet(InFlight) /\ Cardinality(InFlight) \in Nat
<1>1. InFlight \subseteq Index
  BY DEF InFlight
<1>2. IsFiniteSet(InFlight)
  BY <1>1, IndexFinite, FS_Subset
<1>3. QED
  BY <1>2, FS_CardinalityType

LEMMA EnterSlots ==
  ASSUME TypeOK, Slots, NEW i \in InFlight, NEW stage \in {"hooks", "gate", "tool"},
         Enter(i, stage), CallFrame
  PROVE  Slots'
<1>1. InFlight' = InFlight
  BY DEF InFlight, Enter, TypeOK
<1>2. QED
  BY <1>1 DEF Slots, Enter, slotVars, CallFrame, Concurrent

LEMMA SettleSlots ==
  ASSUME TypeOK, Shape, Slots, NEW i \in InFlight, NEW how \in {"ok", "error"},
         Settle(i, how), CallFrame
  PROVE  Slots'
<1>1. UNCHANGED <<lo, hi>>
  BY DEF CallFrame
<1>2. i \in Index /\ phase[i] \notin {"idle", "waiting", "settled"}
  BY DEF InFlight
<1>3. CASE Concurrent /\ waiters # <<>>
  <2> DEFINE h == Head(waiters)
  <2>1. /\ phase' = [phase EXCEPT ![i] = "settled", ![h] = "begin"]
        /\ active' = active /\ Concurrent'
    BY <1>1, <1>3 DEF Settle, Concurrent
  <2>2. h \in Index /\ h = waiters[1] /\ 1 \in 1..Len(waiters)
    BY <1>3 DEF TypeOK
  <2>3. phase[h] = "waiting" /\ h # i /\ h \notin InFlight
    BY <1>2, <2>2 DEF Shape, WaiterShape, Waiting, InFlight
  <2>4. InFlight' = (InFlight \ {i}) \cup {h}
    BY <1>2, <2>1, <2>2, <2>3 DEF InFlight, TypeOK
  <2>5. Cardinality(InFlight \ {i}) = Cardinality(InFlight) - 1 /\ IsFiniteSet(InFlight \ {i})
    BY InFlightFinite, FS_RemoveElement
  <2>6. Cardinality(InFlight') = Cardinality(InFlight)
    <3>1. h \notin InFlight \ {i}
      BY <2>3
    <3>2. Cardinality((InFlight \ {i}) \cup {h}) = Cardinality(InFlight \ {i}) + 1
      BY <2>5, <3>1, FS_AddElement
    <3>3. QED
      BY <2>4, <2>5, <3>2, InFlightFinite
  <2>7. QED
    BY <1>3, <2>1, <2>6 DEF Slots
<1>4. CASE Concurrent /\ waiters = <<>>
  <2>1. /\ phase' = [phase EXCEPT ![i] = "settled"]
        /\ active' = active - 1 /\ waiters' = waiters /\ Concurrent'
    BY <1>1, <1>4 DEF Settle, Concurrent
  <2>2. InFlight' = InFlight \ {i}
    BY <1>2, <2>1 DEF InFlight, TypeOK
  <2>3. Cardinality(InFlight') = Cardinality(InFlight) - 1
    BY <2>2, InFlightFinite, FS_RemoveElement
  <2>4. active \in Int /\ MaxConcurrency \in Int
    BY ToolRunnerAssumption DEF TypeOK
  <2>5. QED
    BY <1>4, <2>1, <2>3, <2>4 DEF Slots
<1>5. CASE ~Concurrent
  <2>1. /\ phase' = [phase EXCEPT ![i] = "settled"]
        /\ active' = active /\ waiters' = waiters /\ ~Concurrent'
    BY <1>1, <1>5 DEF Settle, Concurrent
  <2>2. InFlight' = InFlight \ {i}
    BY <1>2, <2>1 DEF InFlight, TypeOK
  <2>3. QED
    BY <1>1, <1>5, <2>1, <2>2 DEF Slots
<1>6. QED
  BY <1>3, <1>4, <1>5

LEMMA LaunchBatchSlots ==
  ASSUME TypeOK, Shape, Slots, LaunchBatch
  PROVE  Slots'
<1> DEFINE ls == LastSlot
<1>1. ls \in lo..hi
  BY LaunchType, ToolRunnerAssumption
<1>2. /\ lo \in Int /\ lo >= 1 /\ hi \in Int /\ ls \in Int /\ lo < hi
      /\ hi <= MaxCalls /\ MaxCalls \in Int /\ MaxConcurrency \in Nat
  BY <1>1, ToolRunnerAssumption DEF TypeOK, LaunchBatch, Concurrent
<1>3. ls - lo + 1 <= MaxConcurrency /\ (ls < hi => ls - lo + 1 = MaxConcurrency)
  BY <1>2 DEF LastSlot
<1>4. /\ active' = ls - lo + 1
      /\ waiters' = [k \in 1..(hi - ls) |-> ls + k]
      /\ UNCHANGED <<lo, hi>>
  BY DEF LaunchBatch
<1>5. \A i \in Index : phase'[i] = IF i \in lo..ls THEN "begin"
                                   ELSE IF i \in (ls + 1)..hi THEN "waiting" ELSE phase[i]
  BY DEF LaunchBatch
<1>6. \A i \in Index : i \notin lo..hi => i \notin InFlight
  BY InBatch DEF InFlight
<1> HIDE DEF ls
<1>7. InFlight' = lo..ls
  <2>1. \A i \in Index : i \in InFlight' <=> phase'[i] \in {"begin", "hooks", "gate", "tool"}
    BY DEF InFlight
  <2>2. \A i \in Index : i \in lo..ls => i \in InFlight'
    BY <1>5, <2>1
  <2>3. \A i \in Index : i \in (ls + 1)..hi => i \notin InFlight'
    BY <1>2, <1>5, <2>1
  <2>4. \A i \in Index : i \notin lo..hi => i \notin InFlight'
    <3>1. \A i \in Index : i \notin lo..hi => phase'[i] = phase[i]
      BY <1>1, <1>2, <1>5 DEF Index
    <3>2. QED
      BY <1>6, <2>1, <3>1 DEF InFlight
  <2>5. InFlight' \subseteq Index /\ lo..ls \subseteq Index
    BY <1>1, <1>2 DEF InFlight, Index
  <2>6. \A i \in Index : i \in lo..ls \/ i \in (ls + 1)..hi \/ i \notin lo..hi
    BY <1>1, <1>2 DEF Index
  <2>7. QED
    BY <2>2, <2>3, <2>4, <2>5, <2>6
<1>8. Cardinality(InFlight') = ls - lo + 1
  BY <1>1, <1>2, <1>7, FS_Interval
<1>9. waiters' # <<>> => ls < hi
  BY <1>1, <1>2, <1>4
<1>10. Concurrent'
  BY <1>2, <1>4 DEF Concurrent
<1>11. QED
  BY <1>3, <1>4, <1>8, <1>9, <1>10 DEF Slots

LEMMA OtherSlots ==
  ASSUME TypeOK, Shape, Slots, OpenBatch \/ CheckCall \/ LaunchSingle \/ Deliver
  PROVE  Slots'
<1> USE DEF slotVars
<1>1. CASE OpenBatch
  <2>1. Shape'
    BY <1>1, OpenShape, ToolRunnerAssumption
  <2>2. InFlight' = {} /\ InFlight = {}
    <3>1. phase' = phase
      BY <1>1 DEF OpenBatch
    <3>2. \A i \in Index : i <= hi => phase[i] = "settled"
      <4>1. \A i \in Index : i <= hi => i \in 1..Len(results)
        BY <1>1 DEF OpenBatch, Index, TypeOK
      <4>2. QED
        BY <4>1 DEF Shape, ResultShape
    <3>3. \A i \in Index : phase[i] \in {"settled", "idle"}
      BY <3>2 DEF Shape, PhaseShape, TypeOK, Index
    <3>4. QED
      BY <3>1, <3>3 DEF InFlight
  <2>3. Cardinality({}) = 0
    BY FS_EmptySet
  <2>4. active = 0 /\ active' = 0
    BY <1>1, <2>2, <2>3 DEF Slots, OpenBatch
  <2>5. waiters' = <<>>
    <3>1. waiters' = waiters
      BY <1>1 DEF OpenBatch
    <3>2. waiters # <<>> => active = MaxConcurrency
      BY DEF Slots
    <3>3. QED
      BY <2>4, <3>1, <3>2, ToolRunnerAssumption
  <2>6. QED
    BY <2>2, <2>3, <2>4, <2>5, ToolRunnerAssumption DEF Slots
<1>2. CASE CheckCall
  BY <1>2 DEF CheckCall, Slots, Concurrent, InFlight
<1>3. CASE LaunchSingle
  <2>1. /\ UNCHANGED <<lo, hi, active, waiters>> /\ phase' = [phase EXCEPT ![lo] = "begin"]
        /\ ~Concurrent /\ ~Concurrent'
    BY <1>3 DEF LaunchSingle, Concurrent
  <2>2. InFlight' \subseteq {lo}
    BY <2>1 DEF Slots, InFlight, TypeOK
  <2>3. QED
    BY <2>1, <2>2 DEF Slots
<1>4. CASE Deliver
  BY <1>4 DEF Deliver, Slots, Concurrent, InFlight
<1>5. QED
  BY <1>1, <1>2, <1>3, <1>4

LEMMA SlotsInductive ==
  ASSUME TypeOK, Shape, Slots, [Next]_vars
  PROVE  Slots'
<1>1. ASSUME NEW us \in TurnCalls, StartTurn(us) PROVE Slots'
  BY <1>1, ToolRunnerAssumption DEF StartTurn, Slots, Concurrent, InFlight
<1>2. CASE OpenBatch \/ CheckCall \/ LaunchSingle \/ Deliver
  BY <1>2, OtherSlots
<1>3. CASE LaunchBatch BY <1>3, LaunchBatchSlots
<1>4. ASSUME NEW i \in Index, CallStep(i) PROVE Slots'
  BY <1>4, CallStepKinds, EnterSlots, SettleSlots
<1>5. CASE UNCHANGED vars
  BY <1>5 DEF vars, Slots, Concurrent, InFlight
<1>6. QED
  BY <1>1, <1>2, <1>3, <1>4, <1>5 DEF Next, Runner, Done

(* The slot counter of startWithLimit is exact and the cap is kept; a call    *)
(* waits only while every slot is taken.                                      *)
THEOREM SlotsCorrect == Spec => []SlotsAccounted
<1>1. Init => Slots
  BY ToolRunnerAssumption DEF Init, Slots, Concurrent, InFlight
<1>2. TypeOK /\ Shape /\ Slots /\ [Next]_vars => Slots'
  BY SlotsInductive
<1>3. TypeOK /\ Shape /\ Slots => SlotsAccounted
  <2> SUFFICES ASSUME TypeOK, Shape, Slots PROVE SlotsAccounted
    OBVIOUS
  <2>1. ~Concurrent => Cardinality(InFlight) <= 1
    <3>1. IsFiniteSet({lo}) /\ Cardinality({lo}) = 1
      BY FS_Singleton
    <3>2. \A T \in SUBSET {lo} : Cardinality(T) <= 1
      BY <3>1, FS_Subset
    <3>3. QED
      BY <3>2 DEF Slots
  <2>2. Cardinality(InFlight) <= MaxConcurrency
    BY <2>1, InFlightFinite, ToolRunnerAssumption DEF Slots
  <2>3. DOMAIN waiters = 1..Len(waiters)
    BY DEF TypeOK
  <2>4. QED
    BY <2>2, <2>3 DEF Slots, SlotsAccounted, Shape, WaiterShape, Waiting
<1>4. QED
  BY <1>1, <1>2, <1>3, TypeCorrect, ShapeInvariant, PTL DEF Spec

-----------------------------------------------------------------------------
(* Two calls of one turn overlap only inside a stretch of safe calls, after   *)
(* everything unsafe before it was answered.                                  *)
THEOREM UnsafeAlone == Spec => []UnsafeRunsAlone
<1>1. ASSUME TypeOK, Shape PROVE UnsafeRunsAlone
  <2> SUFFICES ASSUME NEW i \in InFlight, NEW j \in InFlight, i < j
               PROVE  /\ \A k \in i..j : uses[k] \in Safe
                      /\ \A k \in 1..(i - 1) : k <= Len(results) \/ uses[k] \in Safe
    BY DEF UnsafeRunsAlone
  <2>1. i \in lo..hi /\ j \in lo..hi
    BY <1>1, InBatch DEF InFlight
  <2>2. lo \in Int /\ hi \in Int /\ lo >= 1 /\ lo < hi /\ Len(results) \in Int
    BY <1>1, <2>1 DEF TypeOK
  <2>3. \A k \in lo..hi : uses[k] \in Safe
    BY <1>1, <2>2 DEF Shape, BatchShape, IsBatch
  <2>4. \A k \in 1..(i - 1) : k \in lo..hi \/ k <= Len(results)
    BY <1>1, <2>1, <2>2 DEF Shape, BatchShape
  <2>5. QED
    BY <2>1, <2>2, <2>3, <2>4
<1>2. QED
  BY <1>1, TypeCorrect, ShapeInvariant, PTL

-----------------------------------------------------------------------------
(* The loop guard.  `count` is the length of the run of `lastKey` that ends   *)
(* the history, and that run cannot be extended to the left.                  *)
GuardRun ==
  /\ seen <= Len(log)
  /\ count <= Len(log)
  /\ log = <<>> => lastKey = NoCall
  /\ log # <<>> => count >= 1
  /\ \A k \in (Len(log) - count + 1)..Len(log) : log[k] = lastKey
  /\ count < Len(log) => log[Len(log) - count] # lastKey

GuardVerdicts ==
  /\ blocked \subseteq 1..seen
  /\ \A i \in 1..seen : i \in blocked <=> Repeats(log, Len(log) - seen + i)

(* The verdict on one more call is the verdict on the extended history.       *)
LEMMA CheckVerdict ==
  ASSUME TypeOK, GuardRun, NEW key \in Call, log' = Append(log, key)
  PROVE  /\ NextCount(key) >= RepeatLimit <=> Repeats(log', Len(log) + 1)
         /\ \A p \in 1..Len(log) : Repeats(log', p) <=> Repeats(log, p)
<1> DEFINE L == Len(log)
           n == NextCount(key)
<1>1. /\ L \in Nat /\ count \in Nat /\ RepeatLimit \in Nat \ {0}
      /\ count <= L /\ NoCall \notin Call
  BY ToolRunnerAssumption DEF TypeOK, GuardRun
<1>2. /\ Len(log') = L + 1 /\ log'[L + 1] = key
      /\ \A k \in 1..L : log'[k] = log[k]
  BY DEF TypeOK
<1>3. \A p \in 1..L : Repeats(log', p) <=> Repeats(log, p)
  BY <1>1, <1>2 DEF Repeats
<1>4. CASE key = lastKey
  <2>1. n = count + 1 /\ L >= 1
    BY <1>1, <1>4 DEF NextCount, GuardRun, TypeOK
  <2>2. \A k \in (L + 1 - n + 1)..(L + 1) : log'[k] = key
    BY <1>1, <1>2, <1>4, <2>1 DEF GuardRun
  <2>3. ASSUME n >= RepeatLimit PROVE Repeats(log', L + 1)
    BY <1>1, <1>2, <2>1, <2>2, <2>3 DEF Repeats
  <2>4. ASSUME Repeats(log', L + 1), n < RepeatLimit PROVE FALSE
    <3>1. count < L /\ L + 1 - n \in (L + 1 - RepeatLimit + 1)..(L + 1)
      BY <1>1, <2>1, <2>4 DEF Repeats
    <3>2. log'[L + 1 - n] = key
      BY <1>1, <1>2, <2>1, <2>4, <3>1 DEF Repeats
    <3>3. L + 1 - n = L - count /\ L - count \in 1..L
      BY <1>1, <2>1, <3>1
    <3>4. QED
      BY <1>2, <1>4, <3>1, <3>2, <3>3 DEF GuardRun
  <2>5. QED
    BY <1>1, <1>3, <2>1, <2>3, <2>4
<1>5. CASE key # lastKey
  <2>1. n = 1
    BY <1>5 DEF NextCount
  <2>2. ASSUME RepeatLimit = 1 PROVE Repeats(log', L + 1)
    BY <1>1, <1>2, <2>2 DEF Repeats
  <2>3. ASSUME Repeats(log', L + 1), RepeatLimit > 1 PROVE FALSE
    <3>1. L >= 1 /\ L \in (L + 1 - RepeatLimit + 1)..(L + 1)
      BY <1>1, <2>3 DEF Repeats
    <3>2. log'[L] = key /\ log'[L] = log[L]
      BY <1>1, <1>2, <2>3, <3>1 DEF Repeats
    <3>3. log # <<>>
      BY <3>1
    <3>4. log[L] = lastKey
      BY <1>1, <3>1, <3>3 DEF GuardRun
    <3>5. QED
      BY <1>5, <3>2, <3>4
  <2>4. QED
    BY <1>1, <1>3, <2>1, <2>2, <2>3
<1>6. QED
  BY <1>4, <1>5

LEMMA CheckGuard ==
  ASSUME TypeOK, GuardRun, GuardVerdicts, CheckCall
  PROVE  GuardRun' /\ GuardVerdicts'
<1> DEFINE i == seen + 1
           key == uses[i]
           n == NextCount(key)
           L == Len(log)
<1>1. /\ lastKey' = key /\ count' = n /\ log' = Append(log, key) /\ seen' = i
      /\ blocked' = IF n < RepeatLimit THEN blocked ELSE blocked \cup {i}
  BY DEF CheckCall
<1>2. /\ L \in Nat /\ seen \in Nat /\ count \in Nat /\ RepeatLimit \in Nat
      /\ key \in Call /\ n \in Nat /\ n >= 1 /\ seen <= L /\ count <= L
      /\ NoCall \notin Call
  BY ToolRunnerAssumption DEF TypeOK, CheckCall, GuardRun, NextCount
<1>3. /\ Len(log') = L + 1 /\ log'[L + 1] = key
      /\ \A k \in 1..L : log'[k] = log[k]
  BY <1>1, <1>2 DEF TypeOK
<1>4. /\ n >= RepeatLimit <=> Repeats(log', L + 1)
      /\ \A p \in 1..L : Repeats(log', p) <=> Repeats(log, p)
  BY <1>1, <1>2, CheckVerdict
<1>5. GuardVerdicts'
  <2>1. \A j \in 1..seen : L - seen + j \in 1..L /\ (L + 1) - i + j = L - seen + j
    BY <1>2
  <2>2. \A j \in 1..seen : j \in blocked' <=> Repeats(log', (L + 1) - i + j)
    BY <1>1, <1>2, <1>4, <2>1 DEF GuardVerdicts
  <2>3. i \in blocked' <=> Repeats(log', (L + 1) - i + i)
    <3>1. i \notin blocked
      BY <1>2 DEF GuardVerdicts
    <3>2. (L + 1) - i + i = L + 1
      BY <1>2
    <3>3. QED
      BY <1>1, <1>2, <1>4, <3>1, <3>2
  <2>4. \A j \in 1..i : j \in 1..seen \/ j = i
    BY <1>2
  <2>5. \A j \in 1..i : j \in blocked' <=> Repeats(log', (L + 1) - i + j)
    BY <2>2, <2>3, <2>4
  <2>6. blocked' \subseteq 1..i
    BY <1>1, <1>2 DEF GuardVerdicts
  <2>7. QED
    BY <1>1, <1>3, <2>5, <2>6 DEF GuardVerdicts
<1>6. GuardRun'
  <2>1. log' # <<>>
    BY <1>2, <1>3
  <2>2. CASE key = lastKey
    <3>1. n = count + 1
      BY <2>2 DEF NextCount
    <3>2. \A k \in (L + 1 - n + 1)..(L + 1) : log'[k] = key
      BY <1>2, <1>3, <2>2, <3>1 DEF GuardRun
    <3>3. n < L + 1 => log'[L + 1 - n] # key
      BY <1>2, <1>3, <2>2, <3>1 DEF GuardRun
    <3>4. QED
      BY <1>1, <1>2, <1>3, <2>1, <3>1, <3>2, <3>3 DEF GuardRun
  <2>3. CASE key # lastKey
    <3>1. n = 1
      BY <2>3 DEF NextCount
    <3>2. L >= 1 => log'[L] # key
      <4>1. L >= 1 => log[L] = lastKey
        BY <1>2 DEF GuardRun
      <4>2. QED
        BY <1>2, <1>3, <2>3, <4>1
    <3>3. QED
      BY <1>1, <1>2, <1>3, <2>1, <3>1, <3>2 DEF GuardRun
  <2>4. QED
    BY <2>2, <2>3
<1>7. QED
  BY <1>5, <1>6

LEMMA GuardInductive ==
  ASSUME TypeOK, GuardRun, GuardVerdicts, [Next]_vars
  PROVE  GuardRun' /\ GuardVerdicts'
<1> USE DEF GuardRun, GuardVerdicts, Repeats, guardVars
<1>1. ASSUME NEW us \in TurnCalls, StartTurn(us) PROVE GuardRun' /\ GuardVerdicts'
  BY <1>1 DEF StartTurn, TypeOK
<1>2. CASE OpenBatch BY <1>2 DEF OpenBatch
<1>3. CASE CheckCall BY <1>3, CheckGuard
<1>4. CASE LaunchSingle BY <1>4 DEF LaunchSingle
<1>5. CASE LaunchBatch BY <1>5 DEF LaunchBatch
<1>6. CASE Deliver BY <1>6 DEF Deliver
<1>7. ASSUME NEW i \in Index, CallStep(i) PROVE GuardRun' /\ GuardVerdicts'
  BY <1>7, CallStepKinds DEF CallFrame
<1>8. CASE UNCHANGED vars BY <1>8 DEF vars
<1>9. QED
  BY <1>1, <1>2, <1>3, <1>4, <1>5, <1>6, <1>7, <1>8 DEF Next, Runner, Done

LEMMA GuardInvariant == Spec => [](GuardRun /\ GuardVerdicts)
<1>1. Init => GuardRun /\ GuardVerdicts
  BY DEF Init, GuardRun, GuardVerdicts
<1>2. TypeOK /\ GuardRun /\ GuardVerdicts /\ [Next]_vars => GuardRun' /\ GuardVerdicts'
  BY GuardInductive
<1>3. QED
  BY <1>1, <1>2, TypeCorrect, PTL DEF Spec

-----------------------------------------------------------------------------
(* The fate of a call.  Nothing is decided before a call begins; past the     *)
(* guard it is not blocked; only the gate's consent makes it executed; a      *)
(* refusal settles it at once, with an error.                                 *)
FateOf(i) ==
  /\ phase[i] \in {"idle", "waiting", "begin", "hooks", "gate"} => i \notin executed
  /\ phase[i] # "settled" => i \notin refused /\ outcome[i] = "none"
  /\ phase[i] \in {"hooks", "gate", "tool"} => i \notin blocked
  /\ phase[i] = "tool" => i \in executed
  /\ i \in executed => i \notin blocked \cup refused
  /\ i \in refused => outcome[i] = "error"
  /\ phase[i] = "settled" => outcome[i] \in {"ok", "error"}
  /\ outcome[i] = "ok" => i \in executed

Fate == \A i \in Index : FateOf(i)

(* What settling call i does to the fate of every call. *)
LEMMA SettleFate ==
  ASSUME TypeOK, Shape, Fate, NEW i \in InFlight, NEW how \in {"ok", "error"},
         Settle(i, how), CallFrame,
         executed' = executed,
         \/ refused' = refused
         \/ refused' = refused \cup {i} /\ i \notin executed /\ how = "error",
         how = "ok" => i \in executed
  PROVE  Fate'
<1>1. i \in Index /\ phase[i] \in {"begin", "hooks", "gate", "tool"} /\ blocked' = blocked
  BY DEF InFlight, CallFrame
<1>2. outcome' = [outcome EXCEPT ![i] = how]
  BY DEF Settle
<1>3. phase'[i] = "settled"
  <2>1. CASE Concurrent /\ waiters # <<>>
    <3>1. Head(waiters) \in Index /\ Head(waiters) = waiters[1] /\ 1 \in 1..Len(waiters)
      BY <2>1 DEF TypeOK
    <3>2. phase[Head(waiters)] = "waiting"
      BY <3>1 DEF Shape, WaiterShape, Waiting
    <3>3. QED
      BY <1>1, <2>1, <3>1, <3>2 DEF Settle, TypeOK
  <2>2. CASE ~(Concurrent /\ waiters # <<>>)
    BY <1>1, <2>2 DEF Settle, TypeOK
  <2>3. QED
    BY <2>1, <2>2
<1>4. \A j \in Index : j # i => phase'[j] = phase[j] \/ (phase[j] = "waiting" /\ phase'[j] = "begin")
  <2>1. CASE Concurrent /\ waiters # <<>>
    <3>1. Head(waiters) \in Index /\ Head(waiters) = waiters[1] /\ 1 \in 1..Len(waiters)
      BY <2>1 DEF TypeOK
    <3>2. phase[Head(waiters)] = "waiting"
      BY <3>1 DEF Shape, WaiterShape, Waiting
    <3>3. QED
      BY <1>1, <2>1, <3>1, <3>2 DEF Settle, TypeOK
  <2>2. CASE ~(Concurrent /\ waiters # <<>>)
    BY <1>1, <2>2 DEF Settle, TypeOK
  <2>3. QED
    BY <2>1, <2>2
<1>5. SUFFICES ASSUME NEW j \in Index PROVE FateOf(j)'
  BY DEF Fate
<1>6. FateOf(j)
  BY DEF Fate
<1>7. CASE j = i
  <2>1. outcome'[j] = how
    BY <1>1, <1>2, <1>7 DEF TypeOK
  <2>2. FateOf(i)
    BY <1>1 DEF Fate
  <2>3. QED
    BY <1>1, <1>3, <1>7, <2>1, <2>2 DEF FateOf
<1>8. CASE j # i
  <2>1. outcome'[j] = outcome[j]
    BY <1>1, <1>2, <1>8 DEF TypeOK
  <2>2. (j \in refused' <=> j \in refused) /\ (j \in executed' <=> j \in executed)
    BY <1>8
  <2>3. QED
    BY <1>1, <1>4, <1>6, <1>8, <2>1, <2>2 DEF FateOf
<1>9. QED
  BY <1>7, <1>8

LEMMA CallFate ==
  ASSUME TypeOK, Shape, Fate, NEW i \in Index, CallStep(i)
  PROVE  Fate'
<1>1. i \in InFlight /\ CallFrame
  BY CallStepKinds
<1>2. FateOf(i)
  BY DEF Fate
<1>3. CASE BeginRefused(i)
  BY <1>1, <1>2, <1>3, SettleFate DEF BeginRefused, FateOf
<1>4. CASE HooksBlock(i)
  BY <1>1, <1>2, <1>4, SettleFate DEF HooksBlock, FateOf
<1>5. CASE GateRefuse(i)
  BY <1>1, <1>2, <1>5, SettleFate DEF GateRefuse, FateOf
<1>6. ASSUME NEW how \in {"ok", "error"}, ToolReturns(i, how) PROVE Fate'
  BY <1>1, <1>2, <1>6, SettleFate DEF ToolReturns, FateOf, fateVars
<1>7. CASE Begin(i) \/ HooksAllow(i) \/ GateAllow(i)
  <2>1. \E stage \in {"hooks", "gate", "tool"} : phase' = [phase EXCEPT ![i] = stage]
    BY <1>7 DEF Begin, HooksAllow, GateAllow, Enter
  <2>2. outcome' = outcome /\ refused' = refused /\ blocked' = blocked
    BY <1>7 DEF Begin, HooksAllow, GateAllow, Enter, callFrame, guardVars,
                fateVars
  <2>3. \A j \in Index : j # i => phase'[j] = phase[j] /\ (j \in executed' <=> j \in executed)
    BY <1>7, <2>1 DEF Begin, HooksAllow, GateAllow, TypeOK, fateVars
  <2>4. FateOf(i)'
    BY <1>2, <1>7, <2>2 DEF FateOf, Begin, HooksAllow, GateAllow, Enter,
                            TypeOK, fateVars
  <2>5. \A j \in Index : j # i => FateOf(j)'
    BY <2>2, <2>3 DEF Fate, FateOf
  <2>6. QED
    BY <2>4, <2>5 DEF Fate
<1>8. QED
  BY <1>3, <1>4, <1>5, <1>6, <1>7 DEF CallStep

LEMMA FateInductive ==
  ASSUME TypeOK, Shape, Fate, [Next]_vars
  PROVE  Fate'
<1> USE DEF guardVars, fateVars
<1>1. ASSUME NEW us \in TurnCalls, StartTurn(us) PROVE Fate'
  BY <1>1 DEF StartTurn, Fate, FateOf
<1>2. CASE OpenBatch BY <1>2 DEF OpenBatch, Fate, FateOf
<1>3. CASE CheckCall
  <2>1. seen \in Nat /\ hi \in Nat /\ lo \in Nat /\ seen + 1 \in lo..hi
    BY <1>3 DEF TypeOK, CheckCall, Shape, BatchShape
  <2>2. phase[seen + 1] = "idle"
    BY <1>3, <2>1 DEF CheckCall, Shape, PhaseShape
  <2>3. \A j \in Index : j # seen + 1 => (j \in blocked' <=> j \in blocked)
    BY <1>3 DEF CheckCall
  <2>4. UNCHANGED <<phase, outcome, executed, refused>>
    BY <1>3 DEF CheckCall
  <2>5. QED
    BY <2>2, <2>3, <2>4 DEF Fate, FateOf
<1>4. CASE LaunchSingle
  <2>1. UNCHANGED <<outcome, executed, refused, blocked>>
    BY <1>4 DEF LaunchSingle
  <2>2. \A j \in Index : phase'[j] = phase[j] \/ (phase[j] = "idle" /\ phase'[j] = "begin")
    BY <1>4 DEF LaunchSingle, Announced, TypeOK
  <2>3. QED
    BY <2>1, <2>2 DEF Fate, FateOf
<1>5. CASE LaunchBatch
  <2>1. UNCHANGED <<outcome, executed, refused, blocked>>
    BY <1>5 DEF LaunchBatch
  <2>2. LastSlot \in lo..hi /\ lo \in Nat /\ hi \in Nat
    BY <1>5, LaunchRange, ToolRunnerAssumption, Zenon
  <2>3. \A j \in lo..hi : phase[j] = "idle"
    BY <1>5, <2>2 DEF LaunchBatch, Announced, Shape, PhaseShape
  <2>4. \A j \in Index : \/ phase'[j] = phase[j]
                         \/ phase[j] = "idle" /\ phase'[j] \in {"begin", "waiting"}
    BY <1>5, <2>2, <2>3 DEF LaunchBatch
  <2>5. QED
    BY <2>1, <2>4 DEF Fate, FateOf
<1>6. CASE Deliver BY <1>6 DEF Deliver, Fate, FateOf
<1>7. ASSUME NEW i \in Index, CallStep(i) PROVE Fate'
  BY <1>7, CallFate
<1>8. CASE UNCHANGED vars BY <1>8 DEF vars, Fate, FateOf
<1>9. QED
  BY <1>1, <1>2, <1>3, <1>4, <1>5, <1>6, <1>7, <1>8 DEF Next, Runner, Done

LEMMA FateInvariant == Spec => []Fate
<1>1. Init => Fate
  BY DEF Init, Fate, FateOf
<1>2. TypeOK /\ Shape /\ Fate /\ [Next]_vars => Fate'
  BY FateInductive
<1>3. QED
  BY <1>1, <1>2, TypeCorrect, ShapeInvariant, PTL DEF Spec

(* The loop guard refuses exactly the calls that repeat, and they do not run. *)
THEOREM GuardCorrect == Spec => []GuardExact
<1>1. TypeOK /\ Fate /\ GuardVerdicts => GuardExact
  BY DEF Fate, FateOf, GuardVerdicts, GuardExact, TypeOK
<1>2. QED
  BY <1>1, TypeCorrect, FateInvariant, GuardInvariant, PTL

(* No refused call runs, and results tell refused, failed and run calls apart. *)
THEOREM OnlyCleared == Spec => []OnlyClearedCallsRun
<1>1. ASSUME TypeOK, Shape, Fate PROVE OnlyClearedCallsRun
  <2>1. executed \cap refused = {}
    BY <1>1 DEF Fate, FateOf, TypeOK
  <2>2. ASSUME NEW k \in 1..Len(results)
        PROVE  LET i == results[k].use
               IN /\ phase[i] = "settled"
                  /\ i \in refused => results[k].isError
                  /\ ~results[k].isError => i \in executed
    <3>1. /\ results[k] = [use |-> k, isError |-> outcome[k] = "error"]
          /\ phase[k] = "settled"
      BY <1>1, <2>2 DEF Shape, ResultShape
    <3>2. k \in Index
      <4>1. /\ Len(results) \in Int /\ Len(results) <= hi
            /\ hi \in Int /\ hi <= Len(uses)
            /\ Len(uses) \in Int /\ Len(uses) <= MaxCalls
        BY <1>1 DEF TypeOK
      <4>2. QED
        BY <4>1, ToolRunnerAssumption DEF Index
    <3>3. FateOf(k)
      BY <1>1, <3>2 DEF Fate
    <3>4. results[k].use = k /\ (results[k].isError <=> outcome[k] = "error")
      <4>1. results[k].use = k
        BY <3>1
      <4>2. results[k].isError = (outcome[k] = "error")
        <5> HIDE DEF Index
        <5>1. ASSUME NEW r, NEW b \in BOOLEAN, r = [use |-> k, isError |-> b]
              PROVE  r.isError = b
          BY <5>1, Zenon
        <5>2. QED
          BY <3>1, <5>1, Zenon
      <4>3. QED
        BY <4>1, <4>2, Zenon
    <3>5. /\ k \in refused => outcome[k] = "error"
          /\ outcome[k] # "error" => k \in executed
      BY <3>1, <3>3 DEF FateOf
    <3>6. QED
      BY <3>1, <3>4, <3>5
  <2>3. QED
    BY <2>1, <2>2 DEF OnlyClearedCallsRun
<1>2. QED
  BY <1>1, TypeCorrect, ShapeInvariant, FateInvariant, PTL

-----------------------------------------------------------------------------
(* Refinement: every step of the runner is a step of ToolTurn or leaves it    *)
(* unchanged.                                                                 *)
Running == {i \in Index : phase[i] \in {"hooks", "gate", "tool"}}
Finished == {i \in Index : phase[i] = "settled"}

LEMMA TurnMap ==
  /\ Turn!vars = <<uses, Running, Finished, Len(results)>>
  /\ Turn!TurnCalls = TurnCalls
BY DEF Turn!vars, Turn!TurnCalls, TurnCalls, Running, Finished

(* A call at its begin is one ToolTurn lets start or be refused. *)
LEMMA MayBegin ==
  ASSUME TypeOK, Shape, NEW i \in Index, phase[i] = "begin"
  PROVE  /\ i \in 1..Len(uses)
         /\ Turn!MayRun(i)
<1>1. i \in lo..hi /\ i > Len(results)
  BY InBatch
<1>2. lo \in Int /\ lo >= 1 /\ hi \in Int /\ hi <= Len(uses) /\ Len(uses) \in Int /\ Len(results) \in Int
  BY DEF TypeOK
<1>3. i \notin Running \cup Finished
  BY DEF Running, Finished
<1>4. \A j \in 1..(i - 1) : j <= Len(results) \/ \A k \in j..i : uses[k] \in Safe
  <2>1. SUFFICES ASSUME NEW j \in 1..(i - 1), j > Len(results), NEW k \in j..i
                 PROVE  uses[k] \in Safe
    BY <1>2
  <2>2. lo - 1 <= Len(results) /\ (hi > 0 => IsBatch(lo, hi))
    BY DEF Shape, BatchShape
  <2>3. j \in Int /\ j > Len(results) /\ j <= i - 1 /\ k \in Int /\ j <= k /\ k <= i
    BY <1>1, <1>2, <2>1
  <2>4. lo < hi /\ k \in lo..hi
    BY <1>1, <1>2, <2>2, <2>3
  <2>5. QED
    BY <1>2, <2>2, <2>4 DEF IsBatch
<1>5. QED
  BY <1>1, <1>2, <1>3, <1>4 DEF Turn!MayRun, Running, Finished

LEMMA SettleSets ==
  ASSUME TypeOK, Shape, NEW i \in InFlight, NEW how \in {"ok", "error"}, Settle(i, how)
  PROVE  Running' = Running \ {i} /\ Finished' = Finished \cup {i}
<1>1. i \in Index
  BY DEF InFlight
<1>2. CASE Concurrent /\ waiters # <<>>
  <2>1. Head(waiters) \in Index /\ Head(waiters) = waiters[1] /\ 1 \in 1..Len(waiters)
    BY <1>2 DEF TypeOK
  <2>2. phase[Head(waiters)] = "waiting" /\ Head(waiters) # i
    BY <2>1 DEF Shape, WaiterShape, Waiting, InFlight
  <2>3. QED
    BY <1>1, <1>2, <2>1, <2>2 DEF Settle, TypeOK, Running, Finished
<1>3. CASE ~(Concurrent /\ waiters # <<>>)
  BY <1>1, <1>3 DEF Settle, TypeOK, Running, Finished
<1>4. QED
  BY <1>2, <1>3

(* ToolTurn counts with its own copy of the standard operator. *)
LEMMA SameCardinality == ASSUME NEW S PROVE Turn!Cardinality(S) = Cardinality(S)
BY Zenon DEF Turn!Cardinality, Cardinality

LEMMA CallRefines ==
  ASSUME TypeOK, Shape, Slots, NEW i \in Index, CallStep(i)
  PROVE  [Turn!Next]_(Turn!vars)
<1>1. i \in InFlight /\ uses' = uses /\ results' = results
  BY CallStepKinds DEF CallFrame
<1>2. i \in 1..Len(uses)
  <2>1. i \in lo..hi
    BY <1>1, InBatch DEF InFlight
  <2>2. QED
    BY <2>1 DEF TypeOK
<1>3. CASE BeginRefused(i)
  <2>1. Turn!MayRun(i)
    BY <1>3, MayBegin DEF BeginRefused
  <2>2. Running' = Running \ {i} /\ Finished' = Finished \cup {i} /\ i \notin Running
    BY <1>1, <1>3, SettleSets DEF BeginRefused, Running
  <2>3. Turn!Refuse(i)
    BY <1>1, <2>1, <2>2 DEF Turn!Refuse, Running, Finished
  <2>4. QED
    BY <1>2, <2>3 DEF Turn!Next
<1>4. CASE Begin(i)
  <2>1. Turn!MayRun(i)
    BY <1>4, MayBegin DEF Begin
  <2>2. Running' = Running \cup {i} /\ Finished' = Finished
    BY <1>4 DEF Begin, Enter, TypeOK, Running, Finished
  <2>3. Cardinality(Running) < MaxConcurrency
    <3>1. Running \subseteq InFlight \ {i}
      BY <1>4 DEF Running, InFlight, Begin
    <3>2. Cardinality(InFlight \ {i}) = Cardinality(InFlight) - 1 /\ IsFiniteSet(InFlight \ {i})
      BY <1>1, InFlightFinite, FS_RemoveElement
    <3>3. Cardinality(Running) <= Cardinality(InFlight) - 1
      BY <3>1, <3>2, FS_Subset
    <3>4. Cardinality(InFlight) <= MaxConcurrency
      <4>1. CASE Concurrent
        BY <4>1 DEF Slots
      <4>2. CASE ~Concurrent
        <5>1. InFlight \subseteq {lo}
          BY <4>2 DEF Slots
        <5>2. IsFiniteSet({lo}) /\ Cardinality({lo}) = 1
          BY FS_Singleton
        <5>3. Cardinality(InFlight) <= 1
          BY <5>1, <5>2, FS_Subset
        <5>4. QED
          BY <5>3, InFlightFinite, ToolRunnerAssumption
      <4>3. QED
        BY <4>1, <4>2
    <3>5. IsFiniteSet(Running) /\ Cardinality(Running) \in Nat
      BY <3>1, <3>2, FS_Subset, FS_CardinalityType
    <3>6. QED
      BY <3>3, <3>4, <3>5, InFlightFinite, ToolRunnerAssumption
  <2>4. Turn!Start(i)
    <3>1. Cardinality({c \in Index : phase[c] \in {"hooks", "gate", "tool"}}) < MaxConcurrency
      BY <2>3 DEF Running
    <3>2. QED
      BY <1>1, <2>1, <2>2, <3>1, SameCardinality DEF Turn!Start, Running, Finished
  <2>5. QED
    BY <1>2, <2>4 DEF Turn!Next
<1>5. CASE HooksAllow(i) \/ GateAllow(i)
  <2>1. Running' = Running /\ Finished' = Finished
    BY <1>5 DEF HooksAllow, GateAllow, Enter, TypeOK, Running, Finished
  <2>2. QED
    BY <1>1, <2>1, TurnMap DEF Running, Finished, Turn!vars
<1>6. CASE HooksBlock(i) \/ GateRefuse(i) \/ \E how \in {"ok", "error"} : ToolReturns(i, how)
  <2>1. i \in Running
    BY <1>6 DEF HooksBlock, GateRefuse, ToolReturns, Running
  <2>2. Running' = Running \ {i} /\ Finished' = Finished \cup {i}
    BY <1>1, <1>6, SettleSets DEF HooksBlock, GateRefuse, ToolReturns
  <2>3. Turn!Finish(i)
    BY <1>1, <2>1, <2>2 DEF Turn!Finish, Running, Finished
  <2>4. QED
    BY <1>2, <2>3 DEF Turn!Next
<1>7. QED
  BY <1>3, <1>4, <1>5, <1>6 DEF CallStep

LEMMA StepRefines ==
  ASSUME TypeOK, TypeOK', Shape, Slots, [Next]_vars
  PROVE  [Turn!Next]_(Turn!vars)
<1> USE DEF guardVars, slotVars, fateVars
<1>1. ASSUME NEW us \in TurnCalls, StartTurn(us) PROVE [Turn!Next]_(Turn!vars)
  <2>1. Turn!Ask(us)
    BY <1>1 DEF StartTurn, Turn!Ask
  <2>2. QED
    BY <2>1, TurnMap DEF Turn!Next
<1>2. CASE OpenBatch BY <1>2 DEF OpenBatch, Turn!vars
<1>3. CASE CheckCall BY <1>3 DEF CheckCall, Turn!vars
<1>4. CASE LaunchSingle
  <2>1. Running' = Running /\ Finished' = Finished
    BY <1>4 DEF LaunchSingle, Announced, TypeOK, Running, Finished
  <2>2. QED
    BY <1>4, <2>1 DEF LaunchSingle, Turn!vars, Running, Finished
<1>5. CASE LaunchBatch
  <2>1. LastSlot \in lo..hi /\ lo \in Nat /\ hi \in Nat
    BY <1>5, LaunchRange, ToolRunnerAssumption, Zenon
  <2>2. \A j \in lo..hi : phase[j] = "idle"
    BY <1>5, <2>1 DEF LaunchBatch, Announced, Shape, PhaseShape
  <2>3. \A j \in Index : \/ phase'[j] = phase[j]
                         \/ phase[j] = "idle" /\ phase'[j] \in {"begin", "waiting"}
    BY <1>5, <2>1, <2>2 DEF LaunchBatch
  <2>4. Running' = Running /\ Finished' = Finished
    BY <2>3 DEF Running, Finished
  <2>5. QED
    BY <1>5, <2>4 DEF LaunchBatch, Turn!vars, Running, Finished
<1>6. CASE Deliver
  <2>1. /\ Len(results') = Len(results) + 1
        /\ phase[Len(results) + 1] = "settled" /\ phase' = phase /\ uses' = uses
    BY <1>6 DEF Deliver, TypeOK
  <2>2. Len(results) + 1 \in Index
    <3>1. /\ Len(results') \in Int /\ Len(results') <= hi' /\ Len(results) \in Nat
          /\ hi' \in Int /\ hi' <= Len(uses') /\ Len(uses') \in Int /\ Len(uses') <= MaxCalls
      BY DEF TypeOK
    <3>2. QED
      BY <2>1, <3>1, ToolRunnerAssumption DEF Index
  <2>3. Turn!Deliver
    BY <2>1, <2>2 DEF Turn!Deliver
  <2>4. QED
    BY <2>3 DEF Turn!Next
<1>7. ASSUME NEW i \in Index, CallStep(i) PROVE [Turn!Next]_(Turn!vars)
  BY <1>7, CallRefines
<1>8. CASE UNCHANGED vars BY <1>8 DEF vars, Turn!vars
<1>9. QED
  BY <1>1, <1>2, <1>3, <1>4, <1>5, <1>6, <1>7, <1>8 DEF Next, Runner, Done

(* executeToolUses keeps its promise to the agent loop: each call of a turn   *)
(* is answered once, in call order, under the cap, with unsafe calls alone.   *)
THEOREM RefinesToolTurn == Spec => TurnSpec
<1>1. Init => Turn!Init
  BY DEF Init, Turn!Init
<1>2. TypeOK /\ TypeOK' /\ Shape /\ Slots /\ [Next]_vars => [Turn!Next]_(Turn!vars)
  BY StepRefines
<1>3. Spec => []Slots
  <2>1. Init => Slots
    BY ToolRunnerAssumption DEF Init, Slots, Concurrent, InFlight
  <2>2. TypeOK /\ Shape /\ Slots /\ [Next]_vars => Slots'
    BY SlotsInductive
  <2>3. QED
    BY <2>1, <2>2, TypeCorrect, ShapeInvariant, PTL DEF Spec
<1>4. QED
  BY <1>1, <1>2, <1>3, TypeCorrect, ShapeInvariant, PTL DEF Spec, TurnSpec, Turn!Spec
=============================================================================
