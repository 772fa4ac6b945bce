-------------------------- MODULE AgentLoopProofs --------------------------
(***************************************************************************)
(* TLAPS proofs about AgentLoop, for any budget, retry ladder, Stop hooks, *)
(* starting transcripts and bounds.  Type correctness comes with the shape *)
(* of an attempt; on it rest, each by an induction of its own,             *)
(*   MessageShape -> requests,  ViewShape -> the summary's boundary,       *)
(*   TurnShape -> what a pause freezes,  BrakeShape -> QuotaShape.         *)
(***************************************************************************)
EXTENDS AgentLoop, TLAPS, FiniteSetTheorems, SequenceTheorems

(* An attempt that streams or waits has a number, one that waits for its     *)
(* retry has streamed nothing and is not the last.                           *)
AttemptShape ==
  /\ pc \in {"stream", "backoff"} => attempt >= 1
  /\ pc = "backoff" => attempt < MaxAttempts /\ ~text
  /\ text => attempt >= 1

(* Only the current attempt can have streamed text. *)
ShownShape == shown = IF text THEN {attempt} ELSE {}

(* TypeOK in four parts, each of which the steps keep by themselves. *)
TranscriptType ==
  /\ messages \in Seq(Kind)
  /\ initialLen \in 0..Len(messages)
  /\ boundary \in 0..Len(messages)
  /\ target \in 0..Len(messages)
  /\ anchor \in 0..initialLen

AttemptType ==
  /\ attempt \in 0..MaxAttempts
  /\ text \in BOOLEAN
  /\ AttemptShape

UsageType ==
  /\ usage \in Tokens
  /\ lastAttempt \in Tokens
  /\ dipped \in BOOLEAN

RunType ==
  /\ turn \in Nat
  /\ pc \in Phase
  /\ fired \subseteq Hook
  /\ aborted \in BOOLEAN
  /\ quotaHit \in BOOLEAN
  /\ terminal \in Reason \cup {"none"}
  /\ terminal = "none" <=> pc # "ended"
  /\ run \in Nat

(* Facts about the sets a step draws from. *)
LEMMA CutType ==
  ASSUME TranscriptType, NEW cut \in Cuts
  PROVE  cut \in 0..(Len(messages) - 1) /\ messages[cut + 1] \in Assistant
BY DEF Cuts, TranscriptType

LEMMA JudgedType ==
  ASSUME NEW last
  PROVE  Judged(last) \subseteq Hook
BY DEF Judged, Unfired, Hook

LEMMA HookType ==
  ASSUME NEW k \in Unfired
  PROVE  StopHooks[k] \in Hook \ fired
BY DEF Unfired, Hook

(* One induction for each part: one step per action, as everywhere below. *)
LEMMA TranscriptTypeInductive ==
  ASSUME TranscriptType, [Next]_vars
  PROVE  TranscriptType'
<1>a. {"user", "reply", "empty", "call", "results"} \subseteq Kind
  BY DEF Kind
<1> USE DEF TranscriptType, runVars, streamVars, compactVars, abortVars,
            OpenStream, CloseStream, Report
<1>1. CASE AbortedAtTop \/ AbortedInStream \/ AbortedInHooks
  BY <1>1 DEF AbortedAtTop, AbortedInStream, AbortedInHooks
<1>2. ASSUME NEW tokens \in Tokens, StartTurn(tokens) \/ NothingToFold(tokens)
      PROVE  TranscriptType'
  BY <1>2 DEF StartTurn, NothingToFold
<1>3. ASSUME NEW tokens \in Tokens, Fold(tokens)
      PROVE  TranscriptType'
  BY <1>3, CutType DEF Fold
<1>4. CASE SummaryArrives
  BY <1>4 DEF SummaryArrives
<1>5. ASSUME NEW quota \in BOOLEAN, SummaryFails(quota)
      PROVE  TranscriptType'
  BY <1>5 DEF SummaryFails
<1>6. CASE StreamText
  BY <1>6 DEF StreamText
<1>7. ASSUME NEW tokens \in Tokens, StreamEndsWithCalls(tokens)
      PROVE  TranscriptType'
  BY <1>7, <1>a DEF StreamEndsWithCalls
<1>8. ASSUME NEW tokens \in Tokens,
             NEW reason \in {"completed", "refusal", "max_output_tokens"},
             StreamEndsWithReply(tokens, reason)
      PROVE  TranscriptType'
  BY <1>8, <1>a DEF StreamEndsWithReply
<1>9. ASSUME NEW error \in {"rate", "quota", "fatal", "broken"}, StreamFails(error)
      PROVE  TranscriptType'
  BY <1>9 DEF StreamFails
<1>10. CASE Retry
  BY <1>10 DEF Retry
<1>11. CASE HooksPass
  BY <1>11 DEF HooksPass
<1>12. ASSUME NEW k \in DOMAIN StopHooks, HooksBlock(k) \/ HooksBlockBare(k)
      PROVE  TranscriptType'
  BY <1>12, <1>a DEF HooksBlock, HooksBlockBare
<1>13. CASE ToolsReturn
  BY <1>13, <1>a DEF ToolsReturn
<1>14. CASE Stop \/ ChildQuota \/ JudgeQuota
  BY <1>14 DEF Stop, ChildQuota, JudgeQuota
<1>15. CASE Resume
  BY <1>15 DEF Resume, Restorable
<1>16. CASE UNCHANGED vars
  BY <1>16 DEF vars
<1>17. QED
  BY <1>1, <1>2, <1>3, <1>4, <1>5, <1>6, <1>7, <1>8, <1>9, <1>10, <1>11,
     <1>12, <1>13, <1>14, <1>15, <1>16 DEF Next, LoopStep, Done

LEMMA AttemptTypeInductive ==
  ASSUME AgentLoopAssumption, AttemptType, RunType, [Next]_vars
  PROVE  AttemptType'
<1>a. MaxAttempts \in Nat \ {0}
  BY DEF AgentLoopAssumption
<1>b. text' = FALSE => ~text' /\ text' \in BOOLEAN
  BY Zenon
<1> HIDE AgentLoopAssumption
<1> USE DEF AttemptType, AttemptShape, runVars, streamVars, compactVars,
            abortVars, OpenStream, CloseStream, End, SettleAbort
<1>1. CASE AbortedAtTop \/ AbortedInStream \/ AbortedInHooks
  BY <1>1 DEF AbortedAtTop, AbortedInStream, AbortedInHooks
<1>2. ASSUME NEW tokens \in Tokens, StartTurn(tokens) \/ NothingToFold(tokens)
      PROVE  AttemptType'
  BY <1>2, <1>a, <1>b DEF StartTurn, NothingToFold
<1>3. ASSUME NEW tokens \in Tokens, Fold(tokens)
      PROVE  AttemptType'
  BY <1>3 DEF Fold
<1>4. CASE SummaryArrives
  BY <1>4, <1>a, <1>b DEF SummaryArrives
<1>5. ASSUME NEW quota \in BOOLEAN, SummaryFails(quota)
      PROVE  AttemptType'
  BY <1>5, <1>a, <1>b DEF SummaryFails
<1>6. CASE StreamText
  BY <1>6 DEF StreamText
<1>7. ASSUME NEW tokens \in Tokens, StreamEndsWithCalls(tokens)
      PROVE  AttemptType'
  BY <1>7, <1>a, <1>b DEF StreamEndsWithCalls
<1>8. ASSUME NEW tokens \in Tokens,
             NEW reason \in {"completed", "refusal", "max_output_tokens"},
             StreamEndsWithReply(tokens, reason)
      PROVE  AttemptType'
  BY <1>8, <1>a, <1>b DEF StreamEndsWithReply
<1>9. ASSUME NEW error \in {"rate", "quota", "fatal", "broken"}, StreamFails(error)
      PROVE  AttemptType'
  BY <1>9, <1>a, <1>b DEF StreamFails, Exhausted
<1>10. CASE Retry
  BY <1>10, <1>a, <1>b DEF Retry
<1>11. CASE HooksPass
  BY <1>11 DEF HooksPass
<1>12. ASSUME NEW k \in DOMAIN StopHooks, HooksBlock(k) \/ HooksBlockBare(k)
      PROVE  AttemptType'
  BY <1>12 DEF HooksBlock, HooksBlockBare
<1>13. CASE ToolsReturn
  BY <1>13 DEF ToolsReturn
<1>14. CASE Stop \/ ChildQuota \/ JudgeQuota
  BY <1>14 DEF Stop, ChildQuota, JudgeQuota
<1>15. CASE Resume
  BY <1>15, <1>a, <1>b DEF Resume
<1>16. CASE UNCHANGED vars
  BY <1>16 DEF vars
<1>17. QED
  BY <1>1, <1>2, <1>3, <1>4, <1>5, <1>6, <1>7, <1>8, <1>9, <1>10, <1>11,
     <1>12, <1>13, <1>14, <1>15, <1>16 DEF Next, LoopStep, Done

LEMMA ShownInductive ==
  ASSUME AttemptShape, ShownShape, [Next]_vars
  PROVE  ShownShape'
<1> USE DEF AttemptShape, ShownShape, runVars, streamVars, compactVars,
            abortVars, OpenStream, CloseStream
<1>1. CASE AbortedAtTop \/ AbortedInStream \/ AbortedInHooks
  BY <1>1 DEF AbortedAtTop, AbortedInStream, AbortedInHooks
<1>2. ASSUME NEW tokens \in Tokens, StartTurn(tokens) \/ NothingToFold(tokens)
      PROVE  ShownShape'
  BY <1>2 DEF StartTurn, NothingToFold
<1>3. ASSUME NEW tokens \in Tokens, Fold(tokens)
      PROVE  ShownShape'
  BY <1>3 DEF Fold
<1>4. CASE SummaryArrives
  BY <1>4 DEF SummaryArrives
<1>5. ASSUME NEW quota \in BOOLEAN, SummaryFails(quota)
      PROVE  ShownShape'
  BY <1>5 DEF SummaryFails
<1>6. CASE StreamText
  BY <1>6 DEF StreamText
<1>7. ASSUME NEW tokens \in Tokens, StreamEndsWithCalls(tokens)
      PROVE  ShownShape'
  BY <1>7 DEF StreamEndsWithCalls
<1>8. ASSUME NEW tokens \in Tokens,
             NEW reason \in {"completed", "refusal", "max_output_tokens"},
             StreamEndsWithReply(tokens, reason)
      PROVE  ShownShape'
  BY <1>8 DEF StreamEndsWithReply
<1>9. ASSUME NEW error \in {"rate", "quota", "fatal", "broken"}, StreamFails(error)
      PROVE  ShownShape'
  BY <1>9 DEF StreamFails
<1>10. CASE Retry
  BY <1>10 DEF Retry
<1>11. CASE HooksPass
  BY <1>11 DEF HooksPass
<1>12. ASSUME NEW k \in DOMAIN StopHooks, HooksBlock(k) \/ HooksBlockBare(k)
      PROVE  ShownShape'
  BY <1>12 DEF HooksBlock, HooksBlockBare
<1>13. CASE ToolsReturn
  BY <1>13 DEF ToolsReturn
<1>14. CASE Stop \/ ChildQuota \/ JudgeQuota
  BY <1>14 DEF Stop, ChildQuota, JudgeQuota
<1>15. CASE Resume
  BY <1>15 DEF Resume
<1>16. CASE UNCHANGED vars
  BY <1>16 DEF vars
<1>17. QED
  BY <1>1, <1>2, <1>3, <1>4, <1>5, <1>6, <1>7, <1>8, <1>9, <1>10, <1>11,
     <1>12, <1>13, <1>14, <1>15, <1>16 DEF Next, LoopStep, Done

LEMMA UsageTypeInductive ==
  ASSUME AgentLoopAssumption, UsageType, [Next]_vars
  PROVE  UsageType'
<1>a. 0 \in Tokens
  BY DEF AgentLoopAssumption, Tokens
<1> HIDE AgentLoopAssumption
<1> USE DEF UsageType, runVars, streamVars, compactVars, abortVars, Report
<1>1. CASE AbortedAtTop \/ AbortedInStream \/ AbortedInHooks
  BY <1>1 DEF AbortedAtTop, AbortedInStream, AbortedInHooks
<1>2. ASSUME NEW tokens \in Tokens, StartTurn(tokens) \/ NothingToFold(tokens)
      PROVE  UsageType'
  BY <1>2 DEF StartTurn, NothingToFold
<1>3. ASSUME NEW tokens \in Tokens, Fold(tokens)
      PROVE  UsageType'
  BY <1>3 DEF Fold
<1>4. CASE SummaryArrives
  BY <1>4 DEF SummaryArrives
<1>5. ASSUME NEW quota \in BOOLEAN, SummaryFails(quota)
      PROVE  UsageType'
  BY <1>5 DEF SummaryFails
<1>6. CASE StreamText
  BY <1>6 DEF StreamText
<1>7. ASSUME NEW tokens \in Tokens, StreamEndsWithCalls(tokens)
      PROVE  UsageType'
  BY <1>7 DEF StreamEndsWithCalls
<1>8. ASSUME NEW tokens \in Tokens,
             NEW reason \in {"completed", "refusal", "max_output_tokens"},
             StreamEndsWithReply(tokens, reason)
      PROVE  UsageType'
  BY <1>8 DEF StreamEndsWithReply
<1>9. ASSUME NEW error \in {"rate", "quota", "fatal", "broken"}, StreamFails(error)
      PROVE  UsageType'
  BY <1>9 DEF StreamFails
<1>10. CASE Retry
  BY <1>10 DEF Retry
<1>11. CASE HooksPass
  BY <1>11 DEF HooksPass
<1>12. ASSUME NEW k \in DOMAIN StopHooks, HooksBlock(k) \/ HooksBlockBare(k)
      PROVE  UsageType'
  BY <1>12 DEF HooksBlock, HooksBlockBare
<1>13. CASE ToolsReturn
  BY <1>13 DEF ToolsReturn
<1>14. CASE Stop \/ ChildQuota \/ JudgeQuota
  BY <1>14 DEF Stop, ChildQuota, JudgeQuota
<1>15. CASE Resume
  BY <1>15, <1>a DEF Resume
<1>16. CASE UNCHANGED vars
  BY <1>16 DEF vars
<1>17. QED
  BY <1>1, <1>2, <1>3, <1>4, <1>5, <1>6, <1>7, <1>8, <1>9, <1>10, <1>11,
     <1>12, <1>13, <1>14, <1>15, <1>16 DEF Next, LoopStep, Done

LEMMA RunTypeInductive ==
  ASSUME RunType, [Next]_vars
  PROVE  RunType'
<1> USE DEF RunType, Phase, Reason, runVars, streamVars, compactVars,
            abortVars, OpenStream, End, SettleAbort, FastStop
<1>1. CASE AbortedAtTop \/ AbortedInStream \/ AbortedInHooks
  BY <1>1 DEF AbortedAtTop, AbortedInStream, AbortedInHooks
<1>2. ASSUME NEW tokens \in Tokens, StartTurn(tokens) \/ NothingToFold(tokens)
      PROVE  RunType'
  BY <1>2 DEF StartTurn, NothingToFold
<1>3. ASSUME NEW tokens \in Tokens, Fold(tokens)
      PROVE  RunType'
  BY <1>3 DEF Fold
<1>4. CASE SummaryArrives
  BY <1>4 DEF SummaryArrives
<1>5. ASSUME NEW quota \in BOOLEAN, SummaryFails(quota)
      PROVE  RunType'
  BY <1>5 DEF SummaryFails
<1>6. CASE StreamText
  BY <1>6 DEF StreamText
<1>7. ASSUME NEW tokens \in Tokens, StreamEndsWithCalls(tokens)
      PROVE  RunType'
  BY <1>7 DEF StreamEndsWithCalls
<1>8. ASSUME NEW tokens \in Tokens,
             NEW reason \in {"completed", "refusal", "max_output_tokens"},
             StreamEndsWithReply(tokens, reason)
      PROVE  RunType'
  BY <1>8 DEF StreamEndsWithReply
<1>9. ASSUME NEW error \in {"rate", "quota", "fatal", "broken"}, StreamFails(error)
      PROVE  RunType'
  BY <1>9 DEF StreamFails
<1>10. CASE Retry
  BY <1>10 DEF Retry
<1>11. CASE HooksPass
  BY <1>11, JudgedType DEF HooksPass
<1>12. ASSUME NEW k \in DOMAIN StopHooks, HooksBlock(k) \/ HooksBlockBare(k)
      PROVE  RunType'
  BY <1>12, JudgedType, HookType DEF HooksBlock, HooksBlockBare
<1>13. CASE ToolsReturn
  BY <1>13 DEF ToolsReturn
<1>14. CASE Stop \/ ChildQuota \/ JudgeQuota
  BY <1>14 DEF Stop, ChildQuota, JudgeQuota
<1>15. CASE Resume
  <2>1. aborted' \in BOOLEAN /\ quotaHit' \in BOOLEAN
    BY <1>15, Zenon DEF Resume
  <2>2. turn' \in Nat /\ run' \in Nat /\ fired' \subseteq Hook
    BY <1>15 DEF Resume
  <2>3. pc' = "top" /\ terminal' = "none"
    BY <1>15 DEF Resume
  <2>4. QED
    BY <2>1, <2>2, <2>3
<1>16. CASE UNCHANGED vars
  BY <1>16 DEF vars
<1>17. QED
  BY <1>1, <1>2, <1>3, <1>4, <1>5, <1>6, <1>7, <1>8, <1>9, <1>10, <1>11,
     <1>12, <1>13, <1>14, <1>15, <1>16 DEF Next, LoopStep, Done

(* The parts make up TypeOK, before a step and after it. *)
LEMMA TypeParts ==
  TypeOK /\ AttemptShape /\ ShownShape
    <=> TranscriptType /\ AttemptType /\ ShownShape /\ UsageType /\ RunType
<1>1. AttemptType /\ ShownShape => shown \subseteq 1..attempt
  BY DEF AttemptType, AttemptShape, ShownShape
<1>2. QED
  BY Zenon, <1>1 DEF TypeOK, TranscriptType, AttemptType, UsageType, RunType

LEMMA TypePartsNext ==
  TranscriptType' /\ AttemptType' /\ ShownShape' /\ UsageType' /\ RunType'
    => TypeOK' /\ AttemptShape' /\ ShownShape'
<1>1. AttemptType' /\ ShownShape' => shown' \subseteq 1..attempt'
  BY DEF AttemptType, AttemptShape, ShownShape
<1>2. QED
  BY Zenon, <1>1 DEF TypeOK, TranscriptType, AttemptType, UsageType, RunType

LEMMA ShapeInvariant == Spec => [](TypeOK /\ AttemptShape /\ ShownShape)
<1>1. Init => TypeOK /\ AttemptShape /\ ShownShape
  <2> SUFFICES ASSUME Init PROVE TypeOK /\ AttemptShape /\ ShownShape
    OBVIOUS
  <2>1. TranscriptType
    <3>1. messages \in Seq({"user", "reply"})
      BY AgentLoopAssumption DEF Init, AgentLoopAssumption
    <3>2. QED
      BY <3>1 DEF Init, TranscriptType, Kind, Restorable
  <2>2. text \in BOOLEAN /\ ~text /\ dipped \in BOOLEAN /\ aborted \in BOOLEAN
          /\ quotaHit \in BOOLEAN
    BY Zenon DEF Init
  <2>3. AttemptType /\ ShownShape /\ UsageType
    BY <2>2, AgentLoopAssumption
       DEF Init, AttemptType, AttemptShape, ShownShape, UsageType, Tokens,
           AgentLoopAssumption
  <2>4. RunType
    BY <2>2 DEF Init, RunType, Phase
  <2>5. QED
    BY <2>1, <2>3, <2>4, TypeParts
<1>2. TypeOK /\ AttemptShape /\ ShownShape /\ [Next]_vars
        => TypeOK' /\ AttemptShape' /\ ShownShape'
  BY AgentLoopAssumption, TypeParts, TypePartsNext, TranscriptTypeInductive,
     AttemptTypeInductive, ShownInductive, UsageTypeInductive, RunTypeInductive
     DEF AttemptType
<1>3. QED
  BY <1>1, <1>2, PTL DEF Spec

(* The loop's variables keep their shape in every run. *)
THEOREM TypeCorrect == Spec => []TypeOK
BY ShapeInvariant, PTL

(* Of the attempts of a turn, at most one put text before the reader.        *)
THEOREM ShownCorrect == Spec => []TextShownOnce
<1>1. ShownShape => TextShownOnce
  <2>1. Cardinality({}) = 0 /\ Cardinality({attempt}) = 1
    BY FS_EmptySet, FS_Singleton
  <2>2. ShownShape => shown = {} \/ shown = {attempt}
    BY DEF ShownShape
  <2>3. QED
    BY <2>1, <2>2 DEF TextShownOnce
<1>2. QED
  BY <1>1, ShapeInvariant, PTL

-----------------------------------------------------------------------------
(* Messages.  A step appends at most one, of the kind its handler appends.   *)
MessageStep ==
  \/ messages' = messages /\ (pc' = "tools" <=> pc = "tools")
  \/ /\ pc # "tools" /\ pc' = "tools"
     /\ messages' = Append(messages, "call")
  \/ /\ pc = "tools" /\ pc' # "tools"
     /\ messages' = Append(messages, "results")
  \/ /\ pc # "tools" /\ pc' # "tools"
     /\ \E m \in {"reply", "empty", "user"} : messages' = Append(messages, m)

(* Every action is one of these. *)
LEMMA EveryMessageStep ==
  ASSUME RunType, [Next]_vars
  PROVE  MessageStep
<1> USE DEF RunType, MessageStep, runVars, streamVars, compactVars, abortVars,
            OpenStream, CloseStream, End, SettleAbort
<1>1. CASE AbortedAtTop \/ AbortedInStream \/ AbortedInHooks
  BY <1>1 DEF AbortedAtTop, AbortedInStream, AbortedInHooks
<1>2. ASSUME NEW tokens \in Tokens, StartTurn(tokens) \/ NothingToFold(tokens)
      PROVE  MessageStep
  BY <1>2 DEF StartTurn, NothingToFold
<1>3. ASSUME NEW tokens \in Tokens, Fold(tokens)
      PROVE  MessageStep
  BY <1>3 DEF Fold
<1>4. CASE SummaryArrives
  BY <1>4 DEF SummaryArrives
<1>5. ASSUME NEW quota \in BOOLEAN, SummaryFails(quota)
      PROVE  MessageStep
  BY <1>5 DEF SummaryFails
<1>6. CASE StreamText
  BY <1>6 DEF StreamText
<1>7. ASSUME NEW tokens \in Tokens, StreamEndsWithCalls(tokens)
      PROVE  MessageStep
  BY <1>7 DEF StreamEndsWithCalls
<1>8. ASSUME NEW tokens \in Tokens,
             NEW reason \in {"completed", "refusal", "max_output_tokens"},
             StreamEndsWithReply(tokens, reason)
      PROVE  MessageStep
  BY <1>8 DEF StreamEndsWithReply
<1>9. ASSUME NEW error \in {"rate", "quota", "fatal", "broken"}, StreamFails(error)
      PROVE  MessageStep
  BY <1>9 DEF StreamFails
<1>10. CASE Retry
  BY <1>10 DEF Retry
<1>11. CASE HooksPass
  BY <1>11 DEF HooksPass
<1>12. ASSUME NEW k \in DOMAIN StopHooks, HooksBlock(k) \/ HooksBlockBare(k)
      PROVE  MessageStep
  BY <1>12 DEF HooksBlock, HooksBlockBare
<1>13. CASE ToolsReturn
  BY <1>13 DEF ToolsReturn
<1>14. CASE Stop \/ ChildQuota \/ JudgeQuota
  BY <1>14 DEF Stop, ChildQuota, JudgeQuota
<1>15. CASE Resume
  BY <1>15 DEF Resume
<1>16. CASE UNCHANGED vars
  BY <1>16 DEF vars
<1>17. QED
  BY <1>1, <1>2, <1>3, <1>4, <1>5, <1>6, <1>7, <1>8, <1>9, <1>10, <1>11,
     <1>12, <1>13, <1>14, <1>15, <1>16 DEF Next, LoopStep, Done

(* Calls and results come in pairs all through the transcript; only a call   *)
(* whose results are still being collected ends it.                          *)
MessageShape ==
  /\ messages # <<>>
  /\ messages[1] # "results"
  /\ \A k \in 1..(Len(messages) - 1) :
       messages[k] = "call" <=> messages[k + 1] = "results"
  /\ messages[Len(messages)] = "call" <=> pc = "tools"

LEMMA AppendFacts ==
  ASSUME TypeOK, NEW m \in Kind, messages' = Append(messages, m)
  PROVE  /\ Len(messages') = Len(messages) + 1
         /\ messages'[Len(messages) + 1] = m
         /\ \A k \in 1..Len(messages) : messages'[k] = messages[k]
BY DEF TypeOK

LEMMA MessageInductive ==
  ASSUME TypeOK, MessageShape, MessageStep
  PROVE  MessageShape'
<1>1. messages \in Seq(Kind) /\ Len(messages) \in Nat /\ Len(messages) >= 1
  BY DEF TypeOK, MessageShape
<1>2. CASE messages' = messages /\ (pc' = "tools" <=> pc = "tools")
  BY <1>2 DEF MessageShape
<1>3. ASSUME NEW m \in Kind, messages' = Append(messages, m),
             m = "results" <=> messages[Len(messages)] = "call",
             m = "call" <=> pc' = "tools"
      PROVE  MessageShape'
  <2>1. /\ Len(messages') = Len(messages) + 1
        /\ messages'[Len(messages) + 1] = m
        /\ \A k \in 1..Len(messages) : messages'[k] = messages[k]
    BY <1>3, AppendFacts
  <2>2. messages' # <<>> /\ messages'[1] # "results"
    BY <1>1, <2>1 DEF MessageShape
  <2>3. ASSUME NEW k \in 1..(Len(messages') - 1)
        PROVE  messages'[k] = "call" <=> messages'[k + 1] = "results"
    <3>1. CASE k = Len(messages)
      BY <1>1, <1>3, <2>1, <3>1
    <3>2. CASE k # Len(messages)
      BY <1>1, <2>1, <3>2 DEF MessageShape
    <3>3. QED
      BY <3>1, <3>2
  <2>4. QED
    BY <1>1, <1>3, <2>1, <2>2, <2>3 DEF MessageShape
<1>4. QED
  <2>1. \A m \in {"call", "results", "reply", "empty", "user"} : m \in Kind
    BY DEF Kind
  <2>2. QED
    BY <1>2, <1>3, <2>1 DEF MessageStep, MessageShape

LEMMA MessageInvariant == Spec => []MessageShape
<1>1. Init => MessageShape
  <2> SUFFICES ASSUME Init PROVE MessageShape
    OBVIOUS
  <2>1. messages \in Seq({"user", "reply"}) /\ messages # <<>> /\ pc = "top"
    BY AgentLoopAssumption DEF Init, AgentLoopAssumption
  <2>2. \A k \in 1..Len(messages) : messages[k] \in {"user", "reply"}
    BY <2>1
  <2>3. Len(messages) \in Nat /\ Len(messages) >= 1
    BY <2>1
  <2>4. QED
    BY <2>1, <2>2, <2>3 DEF MessageShape
<1>2. TypeOK /\ MessageShape /\ [Next]_vars => MessageShape'
  BY EveryMessageStep, MessageInductive DEF TypeOK, RunType
<1>3. QED
  BY <1>1, <1>2, TypeCorrect, PTL DEF Spec

-----------------------------------------------------------------------------
(* The view.  A summary replaces a head after which an assistant turn comes, *)
(* and the one being written replaces a longer head than the last.           *)
ViewShape ==
  /\ boundary > 0 => Restorable(messages, boundary)
  /\ pc = "summary" => Restorable(messages, target) /\ target > boundary

LEMMA CutFacts ==
  ASSUME TypeOK, NEW cut \in Cuts, Worth(cut)
  PROVE  Restorable(messages, cut) /\ cut > boundary
BY DEF Cuts, TypeOK, Worth, MinHead, Restorable

(* A head that can be replaced stays one, whatever is appended. *)
LEMMA RestorableStays ==
  ASSUME TypeOK, MessageStep, NEW b \in Nat, Restorable(messages, b)
  PROVE  Restorable(messages', b)
<1>1. CASE messages' = messages
  BY <1>1
<1>2. ASSUME NEW m \in Kind, messages' = Append(messages, m)
      PROVE  Restorable(messages', b)
  <2>1. Len(messages) \in Nat
    BY DEF TypeOK
  <2>2. QED
    BY <1>2, <2>1, AppendFacts DEF Restorable
<1>3. QED
  <2>1. \A m \in {"call", "results", "reply", "empty", "user"} : m \in Kind
    BY DEF Kind
  <2>2. QED
    BY <1>1, <1>2, <2>1 DEF MessageStep

LEMMA ViewInductive ==
  ASSUME TypeOK, ViewShape, [Next]_vars
  PROVE  ViewShape'
<1>a. \A b \in Nat : Restorable(messages, b) => Restorable(messages', b)
  BY EveryMessageStep, RestorableStays DEF TypeOK, RunType
<1>b. boundary \in Nat /\ target \in Nat /\ boundary' \in Nat /\ target' \in Nat
  <2>1. boundary \in Nat /\ target \in Nat
    BY DEF TypeOK
  <2>2. TranscriptType'
    BY TranscriptTypeInductive DEF TypeOK, TranscriptType
  <2>3. QED
    BY <2>1, <2>2 DEF TranscriptType
<1> USE DEF ViewShape, runVars, streamVars, compactVars, abortVars, OpenStream,
            CloseStream, Report, End, SettleAbort
<1>1. CASE AbortedAtTop \/ AbortedInStream \/ AbortedInHooks
  BY <1>a, <1>b, <1>1 DEF AbortedAtTop, AbortedInStream, AbortedInHooks
<1>2. ASSUME NEW tokens \in Tokens, StartTurn(tokens) \/ NothingToFold(tokens)
      PROVE  ViewShape'
  BY <1>a, <1>b, <1>2 DEF StartTurn, NothingToFold
<1>3. ASSUME NEW tokens \in Tokens, Fold(tokens)
      PROVE  ViewShape'
  BY <1>a, <1>b, <1>3, CutFacts DEF Fold
<1>4. CASE SummaryArrives
  BY <1>a, <1>b, <1>4 DEF SummaryArrives
<1>5. ASSUME NEW quota \in BOOLEAN, SummaryFails(quota)
      PROVE  ViewShape'
  BY <1>a, <1>b, <1>5 DEF SummaryFails
<1>6. CASE StreamText
  BY <1>a, <1>b, <1>6 DEF StreamText
<1>7. ASSUME NEW tokens \in Tokens, StreamEndsWithCalls(tokens)
      PROVE  ViewShape'
  BY <1>a, <1>b, <1>7 DEF StreamEndsWithCalls
<1>8. ASSUME NEW tokens \in Tokens,
             NEW reason \in {"completed", "refusal", "max_output_tokens"},
             StreamEndsWithReply(tokens, reason)
      PROVE  ViewShape'
  BY <1>a, <1>b, <1>8 DEF StreamEndsWithReply
<1>9. ASSUME NEW error \in {"rate", "quota", "fatal", "broken"}, StreamFails(error)
      PROVE  ViewShape'
  BY <1>a, <1>b, <1>9 DEF StreamFails
<1>10. CASE Retry
  BY <1>a, <1>b, <1>10 DEF Retry
<1>11. CASE HooksPass
  BY <1>a, <1>b, <1>11 DEF HooksPass
<1>12. ASSUME NEW k \in DOMAIN StopHooks, HooksBlock(k) \/ HooksBlockBare(k)
      PROVE  ViewShape'
  BY <1>a, <1>b, <1>12 DEF HooksBlock, HooksBlockBare
<1>13. CASE ToolsReturn
  BY <1>a, <1>b, <1>13 DEF ToolsReturn
<1>14. CASE Stop \/ ChildQuota \/ JudgeQuota
  BY <1>a, <1>b, <1>14 DEF Stop, ChildQuota, JudgeQuota
<1>15. CASE Resume
  BY <1>a, <1>b, <1>15 DEF Resume
<1>16. CASE UNCHANGED vars
  BY <1>a, <1>b, <1>16 DEF vars
<1>17. QED
  BY <1>a, <1>b, <1>1, <1>2, <1>3, <1>4, <1>5, <1>6, <1>7, <1>8, <1>9, <1>10, <1>11,
     <1>12, <1>13, <1>14, <1>15, <1>16 DEF Next, LoopStep, Done

LEMMA ViewInvariant == Spec => []ViewShape
<1>1. Init => ViewShape
  BY DEF Init, ViewShape, Restorable
<1>2. TypeOK /\ ViewShape /\ [Next]_vars => ViewShape'
  BY ViewInductive
<1>3. QED
  BY <1>1, <1>2, TypeCorrect, PTL DEF Spec

(* Every request the loop sends pairs calls with results, whatever head the  *)
(* summary replaced.                                                         *)
THEOREM RequestsCorrect == Spec => []RequestsPaired
<1>1. ASSUME TypeOK, MessageShape, ViewShape PROVE RequestsPaired
  <2> SUFFICES ASSUME pc \in {"stream", "backoff"}
               PROVE  Paired(SubSeq(messages, boundary + 1, Len(messages)))
    BY DEF RequestsPaired
  <2> DEFINE tail == SubSeq(messages, boundary + 1, Len(messages))
             n == Len(messages) - boundary
  <2>1. /\ messages \in Seq(Kind) /\ Len(messages) \in Nat
        /\ boundary \in 0..Len(messages)
    BY <1>1 DEF TypeOK
  <2>2. Len(tail) = n /\ \A k \in 1..n : tail[k] = messages[boundary + k]
    BY <2>1
  <2>3. n \in Nat
    BY <2>1
  <2> HIDE DEF tail, n
  <2>4. ASSUME NEW k \in 1..n, tail[k] = "call"
        PROVE  k < n /\ tail[k + 1] = "results"
    <3>1. messages[Len(messages)] # "call"
      BY <1>1 DEF MessageShape
    <3>2. boundary + k \in 1..Len(messages) /\ messages[boundary + k] = "call"
      BY <2>1, <2>2, <2>4 DEF n
    <3>3. boundary + k < Len(messages)
      BY <2>1, <3>1, <3>2
    <3>4. messages[(boundary + k) + 1] = "results"
      BY <1>1, <2>1, <3>2, <3>3 DEF MessageShape
    <3>5. QED
      BY <2>1, <2>2, <3>3, <3>4 DEF n
  <2>5. ASSUME NEW k \in 1..n, tail[k] = "results"
        PROVE  k > 1 /\ tail[k - 1] = "call"
    <3>1. messages[boundary + 1] # "results"
      BY <1>1, <2>1 DEF MessageShape, ViewShape, Restorable, Assistant
    <3>2. messages[boundary + k] = "results"
      BY <2>2, <2>5
    <3>3. k > 1
      BY <2>3, <3>1, <3>2
    <3>4. boundary + k - 1 \in 1..(Len(messages) - 1)
      BY <2>1, <3>3 DEF n
    <3>5. messages[boundary + k - 1] = "call"
      BY <1>1, <2>1, <3>2, <3>4 DEF MessageShape
    <3>6. QED
      BY <2>1, <2>2, <2>3, <3>3, <3>5
  <2>6. QED
    BY <2>2, <2>4, <2>5 DEF Paired, tail
<1>2. QED
  BY <1>1, TypeCorrect, MessageInvariant, ViewInvariant, PTL

(* Within a run the summary's boundary only advances, over a transcript that *)
(* is only appended to.                                                      *)
THEOREM ViewAdvances == Spec => ViewOnlyAdvances
<1>1. ASSUME TypeOK, ViewShape, [Next]_vars, run' = run
      PROVE  /\ boundary' >= boundary
             /\ Len(messages') >= Len(messages)
             /\ SubSeq(messages', 1, Len(messages)) = messages
  <2>1. boundary' >= boundary
    <3>1. boundary \in Nat /\ target \in Nat /\ run \in Nat
      BY <1>1 DEF TypeOK
    <3>2. ASSUME Resume PROVE FALSE
      BY <1>1, <3>1, <3>2 DEF Resume
    <3>3. CASE boundary' = boundary
      BY <3>1, <3>3
    <3>4. CASE SummaryArrives
      BY <1>1, <3>1, <3>4 DEF SummaryArrives, ViewShape
    <3>5. boundary' = boundary \/ SummaryArrives \/ Resume
      BY <1>1 DEF Next, LoopStep, Done, vars, compactVars, Report, AbortedAtTop,
           StartTurn, NothingToFold, Fold, SummaryFails, AbortedInStream,
           StreamText, StreamEndsWithCalls, StreamEndsWithReply, StreamFails,
           Retry, AbortedInHooks, HooksPass, HooksBlock, HooksBlockBare,
           ToolsReturn, Stop, ChildQuota, JudgeQuota
    <3>6. QED
      BY <3>2, <3>3, <3>4, <3>5
  <2>2. messages \in Seq(Kind)
    BY <1>1 DEF TypeOK
  <2>3. CASE messages' = messages
    <3>1. SubSeq(messages, 1, Len(messages)) = messages /\ Len(messages) \in Nat
      BY <2>2, SubSeqFull
    <3>2. QED
      BY <2>1, <2>3, <3>1
  <2>4. ASSUME NEW m \in Kind, messages' = Append(messages, m)
        PROVE  /\ Len(messages') >= Len(messages)
               /\ SubSeq(messages', 1, Len(messages)) = messages
    BY <2>2, <2>4
  <2>5. QED
    <3>1. \A m \in {"call", "results", "reply", "empty", "user"} : m \in Kind
      BY DEF Kind
    <3>2. MessageStep
      BY <1>1, EveryMessageStep DEF TypeOK, RunType
    <3>3. QED
      BY <2>1, <2>3, <2>4, <3>1, <3>2 DEF MessageStep
<1>2. TypeOK /\ ViewShape /\ [Next]_vars
        => [run' = run => /\ boundary' >= boundary
                          /\ Len(messages') >= Len(messages)
                          /\ SubSeq(messages', 1, Len(messages)) = messages]_vars
  BY <1>1
<1>3. QED
  BY <1>2, TypeCorrect, ViewInvariant, PTL DEF Spec, ViewOnlyAdvances

-----------------------------------------------------------------------------
(* Turns.  The model turns on record since the run began are all but the one *)
(* whose request is under way.                                               *)
Finished == {k \in (initialLen + 1)..Len(messages) : messages[k] \in Assistant}

TurnShape ==
  /\ pc \in {"top", "hooks", "tools"} => Cardinality(Finished) = turn
  /\ pc \in {"summary", "stream", "backoff"} => Cardinality(Finished) = turn - 1
  /\ pc = "ended" => Cardinality(Finished) \in {turn - 1, turn}

LEMMA FinishedFinite ==
  ASSUME TypeOK
  PROVE  IsFiniteSet(Finished) /\ Cardinality(Finished) \in Nat
<1>1. initialLen + 1 \in Int /\ Len(messages) \in Int
  BY DEF TypeOK
<1>2. IsFiniteSet((initialLen + 1)..Len(messages))
  BY <1>1, FS_Interval
<1>3. Finished \in SUBSET ((initialLen + 1)..Len(messages))
  BY DEF Finished
<1>4. QED
  BY <1>2, <1>3, FS_Subset, FS_CardinalityType

(* An assistant turn on record is one more finished turn. *)
LEMMA FinishedGrows ==
  ASSUME TypeOK, initialLen' = initialLen, NEW m \in Kind,
         messages' = Append(messages, m)
  PROVE  Cardinality(Finished')
           = Cardinality(Finished) + (IF m \in Assistant THEN 1 ELSE 0)
<1>1. /\ Len(messages') = Len(messages) + 1
      /\ messages'[Len(messages) + 1] = m
      /\ \A k \in 1..Len(messages) : messages'[k] = messages[k]
      /\ Len(messages) \in Nat /\ initialLen \in 0..Len(messages)
  BY AppendFacts DEF TypeOK
<1>2. \A k \in (initialLen + 1)..Len(messages) : messages'[k] = messages[k]
  BY <1>1
<1>3. CASE m \in Assistant
  <2>1. Finished' = Finished \cup {Len(messages) + 1}
    BY <1>1, <1>2, <1>3 DEF Finished
  <2>2. Len(messages) + 1 \notin Finished
    BY <1>1 DEF Finished
  <2>3. QED
    BY <1>3, <2>1, <2>2, FinishedFinite, FS_AddElement
<1>4. CASE m \notin Assistant
  <2>1. Finished' = Finished
    BY <1>1, <1>2, <1>4 DEF Finished
  <2>2. QED
    BY <1>4, <2>1, FinishedFinite
<1>5. QED
  BY <1>3, <1>4

LEMMA TurnInductive ==
  ASSUME TypeOK, TurnShape, [Next]_vars
  PROVE  TurnShape'
<1>a. turn \in Nat /\ Cardinality(Finished) \in Nat /\ pc \in Phase
  BY FinishedFinite DEF TypeOK
<1>b. messages' = messages /\ initialLen' = initialLen => Finished' = Finished
  BY DEF Finished
<1>c. /\ \A m \in {"reply", "empty", "call"} :
           initialLen' = initialLen /\ messages' = Append(messages, m)
             => Cardinality(Finished') = Cardinality(Finished) + 1
      /\ \A m \in {"user", "results"} :
           initialLen' = initialLen /\ messages' = Append(messages, m)
             => Cardinality(Finished') = Cardinality(Finished)
  <2>1. \A m \in {"reply", "empty", "call"} : m \in Kind /\ m \in Assistant
    BY DEF Kind, Assistant
  <2>2. \A m \in {"user", "results"} : m \in Kind /\ m \notin Assistant
    BY DEF Kind, Assistant
  <2>3. QED
    BY <2>1, <2>2, FinishedGrows, FinishedFinite
<1>d. initialLen' = Len(messages') => Cardinality(Finished') = 0
  <2>1. initialLen' = Len(messages') /\ Len(messages') \in Nat => Finished' = {}
    BY DEF Finished
  <2>2. Len(messages') \in Nat
    BY TranscriptTypeInductive DEF TypeOK, TranscriptType
  <2>3. QED
    BY <2>1, <2>2, FS_EmptySet
<1> USE DEF TurnShape, runVars, streamVars, compactVars, abortVars, OpenStream,
            CloseStream, End, SettleAbort
<1>1. CASE AbortedAtTop \/ AbortedInStream \/ AbortedInHooks
  BY <1>a, <1>b, <1>1 DEF AbortedAtTop, AbortedInStream, AbortedInHooks
<1>2. ASSUME NEW tokens \in Tokens, StartTurn(tokens) \/ NothingToFold(tokens)
      PROVE  TurnShape'
  BY <1>a, <1>b, <1>2 DEF StartTurn, NothingToFold
<1>3. ASSUME NEW tokens \in Tokens, Fold(tokens)
      PROVE  TurnShape'
  BY <1>a, <1>b, <1>3 DEF Fold
<1>4. CASE SummaryArrives
  BY <1>a, <1>b, <1>4 DEF SummaryArrives
<1>5. ASSUME NEW quota \in BOOLEAN, SummaryFails(quota)
      PROVE  TurnShape'
  BY <1>a, <1>b, <1>5 DEF SummaryFails
<1>6. CASE StreamText
  BY <1>a, <1>b, <1>6 DEF StreamText
<1>7. ASSUME NEW tokens \in Tokens, StreamEndsWithCalls(tokens)
      PROVE  TurnShape'
  BY <1>a, <1>b, <1>7, <1>c DEF StreamEndsWithCalls
<1>8. ASSUME NEW tokens \in Tokens,
             NEW reason \in {"completed", "refusal", "max_output_tokens"},
             StreamEndsWithReply(tokens, reason)
      PROVE  TurnShape'
  BY <1>a, <1>b, <1>8, <1>c DEF StreamEndsWithReply
<1>9. ASSUME NEW error \in {"rate", "quota", "fatal", "broken"}, StreamFails(error)
      PROVE  TurnShape'
  BY <1>a, <1>b, <1>9 DEF StreamFails
<1>10. CASE Retry
  BY <1>a, <1>b, <1>10 DEF Retry
<1>11. CASE HooksPass
  BY <1>a, <1>b, <1>11 DEF HooksPass
<1>12. ASSUME NEW k \in DOMAIN StopHooks, HooksBlock(k) \/ HooksBlockBare(k)
      PROVE  TurnShape'
  BY <1>a, <1>b, <1>12, <1>c DEF HooksBlock, HooksBlockBare
<1>13. CASE ToolsReturn
  BY <1>a, <1>b, <1>13, <1>c DEF ToolsReturn
<1>14. CASE Stop \/ ChildQuota \/ JudgeQuota
  BY <1>a, <1>b, <1>14 DEF Stop, ChildQuota, JudgeQuota
<1>15. CASE Resume
  BY <1>a, <1>b, <1>15, <1>d DEF Resume
<1>16. CASE UNCHANGED vars
  BY <1>a, <1>b, <1>16 DEF vars
<1>17. QED
  BY <1>1, <1>2, <1>3, <1>4, <1>5, <1>6, <1>7, <1>8, <1>9, <1>10, <1>11,
     <1>12, <1>13, <1>14, <1>15, <1>16 DEF Next, LoopStep, Done

LEMMA TurnInvariant == Spec => []TurnShape
<1>1. Init => TurnShape
  <2> SUFFICES ASSUME Init PROVE TurnShape
    OBVIOUS
  <2>1. messages \in Seq({"user", "reply"})
    BY AgentLoopAssumption DEF Init, AgentLoopAssumption
  <2>2. Finished = {}
    BY <2>1 DEF Init, Finished
  <2>3. QED
    BY <2>2, FS_EmptySet DEF Init, TurnShape
<1>2. TypeOK /\ TurnShape /\ [Next]_vars => TurnShape'
  BY TurnInductive
<1>3. QED
  BY <1>1, <1>2, TypeCorrect, PTL DEF Spec

(* What a pause freezes is well formed and holds every finished turn.        *)
THEOREM FreezeCorrect == Spec => []FrozenIsResumable
<1>1. ASSUME TypeOK, MessageShape, TurnShape PROVE FrozenIsResumable
  <2> SUFFICES ASSUME terminal = "paused"
               PROVE  Paired(messages) /\ Cardinality(Finished) \in {turn - 1, turn}
    BY DEF FrozenIsResumable, Finished
  <2>1. pc = "ended" /\ Len(messages) \in Nat
    BY <1>1 DEF TypeOK
  <2>2. Paired(messages)
    <3>1. messages[Len(messages)] # "call" /\ messages[1] # "results"
      BY <1>1, <2>1 DEF MessageShape
    <3>2. \A k \in 1..(Len(messages) - 1) :
            messages[k] = "call" <=> messages[k + 1] = "results"
      BY <1>1 DEF MessageShape
    <3>3. ASSUME NEW k \in 1..Len(messages), messages[k] = "results"
          PROVE  k > 1 /\ messages[k - 1] = "call"
      <4>1. k > 1 /\ k - 1 \in 1..(Len(messages) - 1) /\ (k - 1) + 1 = k
        BY <2>1, <3>1, <3>3
      <4>2. QED
        BY <3>2, <3>3, <4>1
    <3>4. QED
      BY <2>1, <3>1, <3>2, <3>3 DEF Paired
  <2>3. QED
    BY <1>1, <2>1, <2>2 DEF TurnShape
<1>2. QED
  BY <1>1, TypeCorrect, MessageInvariant, TurnInvariant, PTL

-----------------------------------------------------------------------------
(* The brake.  Past the hard line every turn is paid for by a Stop hook that *)
(* has fired, and no turn has tools, so none can run into maxTurns.          *)
BrakeShape ==
  /\ turn <= HardBrakeTurn + Cardinality(fired)
  /\ pc = "top" => turn < HardBrakeTurn + Cardinality(fired)
  /\ pc = "tools" => turn < HardBrakeTurn
  /\ terminal # "max_turns"

LEMMA HardBrakeFacts ==
  HardBrakeTurn \in Nat /\ HardBrakeTurn >= 1 /\ HardBrakeTurn <= MaxTurns
BY AgentLoopAssumption DEF AgentLoopAssumption, HardBrakeTurn

LEMMA HookFinite == IsFiniteSet(Hook)
<1>1. StopHooks \in Seq(Hook)
  BY AgentLoopAssumption DEF AgentLoopAssumption
<1>2. Len(StopHooks) \in Nat /\ DOMAIN StopHooks = 1..Len(StopHooks)
  BY <1>1
<1>3. IsFiniteSet(1..Len(StopHooks))
  BY <1>2, FS_Interval
<1>4. StopHooks \in Surjection(1..Len(StopHooks), Hook)
  BY <1>1, <1>2 DEF Surjection, Hook
<1>5. QED
  BY <1>3, <1>4, FS_Surjection

LEMMA FiredFinite ==
  ASSUME TypeOK
  PROVE  IsFiniteSet(fired) /\ Cardinality(fired) \in Nat
BY HookFinite, FS_Subset, FS_CardinalityType DEF TypeOK

(* A hook that fires for the first time makes the fired ones more. *)
LEMMA FiredGrows ==
  ASSUME TypeOK, NEW extra \in SUBSET Hook, fired' = fired \cup extra
  PROVE  /\ Cardinality(fired') \in Nat
         /\ Cardinality(fired') >= Cardinality(fired)
         /\ \A h \in extra : h \notin fired => Cardinality(fired') > Cardinality(fired)
<1>1. IsFiniteSet(fired') /\ Cardinality(fired') \in Nat
  BY HookFinite, FS_Subset, FS_CardinalityType DEF TypeOK
<1>2. fired \in SUBSET fired'
  OBVIOUS
<1>3. /\ Cardinality(fired) <= Cardinality(fired')
      /\ Cardinality(fired) = Cardinality(fired') => fired = fired'
  BY <1>1, <1>2, FS_Subset
<1>4. QED
  BY <1>1, <1>3, FiredFinite

LEMMA BrakeInductive ==
  ASSUME TypeOK, BrakeShape, [Next]_vars
  PROVE  BrakeShape'
<1>a. turn \in Nat /\ Cardinality(fired) \in Nat
  BY FiredFinite DEF TypeOK
<1>b. HardBrakeTurn \in Nat /\ HardBrakeTurn >= 1 /\ HardBrakeTurn <= MaxTurns
        /\ MaxTurns \in Nat /\ HardBrakeTurn' = HardBrakeTurn
  BY HardBrakeFacts, AgentLoopAssumption DEF AgentLoopAssumption, HardBrakeTurn
<1> USE DEF BrakeShape, runVars, streamVars, compactVars, abortVars,
            OpenStream, CloseStream, End, SettleAbort
<1>1. CASE AbortedAtTop \/ AbortedInStream \/ AbortedInHooks
  BY <1>a, <1>b, <1>1 DEF AbortedAtTop, AbortedInStream, AbortedInHooks
<1>2. ASSUME NEW tokens \in Tokens, StartTurn(tokens) \/ NothingToFold(tokens)
      PROVE  BrakeShape'
  BY <1>a, <1>b, <1>2 DEF StartTurn, NothingToFold
<1>3. ASSUME NEW tokens \in Tokens, Fold(tokens)
      PROVE  BrakeShape'
  BY <1>a, <1>b, <1>3 DEF Fold
<1>4. CASE SummaryArrives
  BY <1>a, <1>b, <1>4 DEF SummaryArrives
<1>5. ASSUME NEW quota \in BOOLEAN, SummaryFails(quota)
      PROVE  BrakeShape'
  BY <1>a, <1>b, <1>5 DEF SummaryFails
<1>6. CASE StreamText
  BY <1>a, <1>b, <1>6 DEF StreamText
<1>7. ASSUME NEW tokens \in Tokens, StreamEndsWithCalls(tokens)
      PROVE  BrakeShape'
  BY <1>a, <1>b, <1>7 DEF StreamEndsWithCalls, ToolsOffered
<1>8. ASSUME NEW tokens \in Tokens,
             NEW reason \in {"completed", "refusal", "max_output_tokens"},
             StreamEndsWithReply(tokens, reason)
      PROVE  BrakeShape'
  BY <1>a, <1>b, <1>8 DEF StreamEndsWithReply
<1>9. ASSUME NEW error \in {"rate", "quota", "fatal", "broken"}, StreamFails(error)
      PROVE  BrakeShape'
  BY <1>a, <1>b, <1>9 DEF StreamFails
<1>10. CASE Retry
  BY <1>a, <1>b, <1>10 DEF Retry
<1>11. CASE HooksPass
  <2>1. fired' = fired \cup Judged(Len(StopHooks)) /\ Judged(Len(StopHooks)) \in SUBSET Hook
    BY <1>11, JudgedType DEF HooksPass
  <2>2. Cardinality(fired') \in Nat /\ Cardinality(fired') >= Cardinality(fired)
    BY <2>1, FiredGrows
  <2>3. QED
    BY <1>a, <1>b, <1>11, <2>2 DEF HooksPass
<1>12. ASSUME NEW k \in DOMAIN StopHooks, HooksBlock(k) \/ HooksBlockBare(k)
      PROVE  BrakeShape'
  <2>1. PICK extra \in SUBSET Hook : fired' = fired \cup extra /\ StopHooks[k] \in extra
    <3>1. Judged(k) \cup {StopHooks[k]} \in SUBSET Hook
      BY <1>12, JudgedType DEF Hook
    <3>2. fired' = fired \cup (Judged(k) \cup {StopHooks[k]})
      BY <1>12 DEF HooksBlock, HooksBlockBare
    <3>3. QED
      BY <3>1, <3>2
  <2>2. StopHooks[k] \notin fired
    BY <1>12 DEF HooksBlock, HooksBlockBare, Unfired
  <2>3. Cardinality(fired') \in Nat /\ Cardinality(fired') > Cardinality(fired)
    BY <2>1, <2>2, FiredGrows, FiredFinite
  <2>4. QED
    BY <1>a, <1>b, <1>12, <2>3 DEF HooksBlock, HooksBlockBare
<1>13. CASE ToolsReturn
  BY <1>a, <1>b, <1>13 DEF ToolsReturn
<1>14. CASE Stop \/ ChildQuota \/ JudgeQuota
  BY <1>a, <1>b, <1>14 DEF Stop, ChildQuota, JudgeQuota
<1>15. CASE Resume
  BY <1>a, <1>b, <1>15, FS_EmptySet DEF Resume
<1>16. CASE UNCHANGED vars
  BY <1>a, <1>b, <1>16 DEF vars
<1>17. QED
  BY <1>1, <1>2, <1>3, <1>4, <1>5, <1>6, <1>7, <1>8, <1>9, <1>10, <1>11,
     <1>12, <1>13, <1>14, <1>15, <1>16 DEF Next, LoopStep, Done

LEMMA BrakeInvariant == Spec => []BrakeShape
<1>1. Init => BrakeShape
  BY HardBrakeFacts, FS_EmptySet DEF Init, BrakeShape
<1>2. TypeOK /\ BrakeShape /\ [Next]_vars => BrakeShape'
  BY BrakeInductive
<1>3. QED
  BY <1>1, <1>2, TypeCorrect, PTL DEF Spec

(* With the tools taken away the run converges: no run ends in max_turns.    *)
THEOREM BrakeCorrect == Spec => []BrakeConverges
<1>1. BrakeShape => BrakeConverges
  BY DEF BrakeShape, BrakeConverges
<1>2. QED
  BY <1>1, BrakeInvariant, PTL

-----------------------------------------------------------------------------
(* The quota.  A 403 aborts the run, and no request is made after one.       *)
QuotaShape ==
  /\ quotaHit => aborted
  /\ pc \in {"summary", "stream", "backoff"} => ~quotaHit
  /\ QuotaPauses

LEMMA QuotaInductive ==
  ASSUME TypeOK, BrakeShape, QuotaShape, [Next]_vars
  PROVE  QuotaShape'
<1>a. /\ pc \in Phase /\ turn \in Nat /\ attempt \in Nat /\ attempt <= MaxAttempts
      /\ MaxAttempts \in Nat /\ MaxTurns \in Nat
      /\ quotaHit \in BOOLEAN /\ aborted \in BOOLEAN /\ text \in BOOLEAN
      /\ terminal = "none" <=> pc # "ended"
  BY AgentLoopAssumption DEF AgentLoopAssumption, TypeOK
<1>b. HardBrakeTurn \in Nat /\ HardBrakeTurn <= MaxTurns
  BY HardBrakeFacts
<1>c. (quotaHit' = TRUE => quotaHit') /\ (aborted' = TRUE => aborted')
        /\ (quotaHit' = FALSE => ~quotaHit')
  BY Zenon
<1> USE DEF QuotaShape, QuotaPauses, runVars, streamVars, compactVars,
            abortVars, OpenStream, CloseStream, End, SettleAbort, FastStop
<1>1. CASE AbortedAtTop \/ AbortedInStream \/ AbortedInHooks
  BY <1>a, <1>c, <1>1 DEF AbortedAtTop, AbortedInStream, AbortedInHooks
<1>2. ASSUME NEW tokens \in Tokens, StartTurn(tokens) \/ NothingToFold(tokens)
      PROVE  QuotaShape'
  BY <1>a, <1>c, <1>2 DEF StartTurn, NothingToFold
<1>3. ASSUME NEW tokens \in Tokens, Fold(tokens)
      PROVE  QuotaShape'
  BY <1>a, <1>c, <1>3 DEF Fold
<1>4. CASE SummaryArrives
  BY <1>a, <1>c, <1>4 DEF SummaryArrives
<1>5. ASSUME NEW quota \in BOOLEAN, SummaryFails(quota)
      PROVE  QuotaShape'
  BY <1>a, <1>c, <1>5 DEF SummaryFails
<1>6. CASE StreamText
  BY <1>a, <1>c, <1>6 DEF StreamText
<1>7. ASSUME NEW tokens \in Tokens, StreamEndsWithCalls(tokens)
      PROVE  QuotaShape'
  BY <1>a, <1>c, <1>7 DEF StreamEndsWithCalls
<1>8. ASSUME NEW tokens \in Tokens,
             NEW reason \in {"completed", "refusal", "max_output_tokens"},
             StreamEndsWithReply(tokens, reason)
      PROVE  QuotaShape'
  BY <1>a, <1>c, <1>8 DEF StreamEndsWithReply
<1>9. ASSUME NEW error \in {"rate", "quota", "fatal", "broken"}, StreamFails(error)
      PROVE  QuotaShape'
  BY <1>a, <1>c, <1>9 DEF StreamFails, Exhausted
<1>10. CASE Retry
  BY <1>a, <1>c, <1>10 DEF Retry
<1>11. CASE HooksPass
  BY <1>a, <1>c, <1>11 DEF HooksPass
<1>12. ASSUME NEW k \in DOMAIN StopHooks, HooksBlock(k) \/ HooksBlockBare(k)
      PROVE  QuotaShape'
  BY <1>a, <1>c, <1>12 DEF HooksBlock, HooksBlockBare
<1>13. CASE ToolsReturn
  BY <1>a, <1>b, <1>c, <1>13 DEF ToolsReturn, BrakeShape
<1>14. CASE Stop \/ ChildQuota \/ JudgeQuota
  BY <1>a, <1>c, <1>14 DEF Stop, ChildQuota, JudgeQuota
<1>15. CASE Resume
  BY <1>a, <1>c, <1>15 DEF Resume
<1>16. CASE UNCHANGED vars
  BY <1>a, <1>c, <1>16 DEF vars
<1>17. QED
  BY <1>1, <1>2, <1>3, <1>4, <1>5, <1>6, <1>7, <1>8, <1>9, <1>10, <1>11,
     <1>12, <1>13, <1>14, <1>15, <1>16 DEF Next, LoopStep, Done

LEMMA QuotaInvariant == Spec => []QuotaShape
<1>1. Init => QuotaShape
  BY Zenon DEF Init, QuotaShape, QuotaPauses
<1>2. TypeOK /\ BrakeShape /\ QuotaShape /\ [Next]_vars => QuotaShape'
  BY QuotaInductive
<1>3. QED
  BY <1>1, <1>2, TypeCorrect, BrakeInvariant, PTL DEF Spec

(* Running into the quota ends the run as a pause and nothing else.          *)
THEOREM QuotaCorrect == Spec => []QuotaPauses
<1>1. QuotaShape => QuotaPauses
  BY DEF QuotaShape
<1>2. QED
  BY <1>1, QuotaInvariant, PTL

=============================================================================
