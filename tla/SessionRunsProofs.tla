------------------------- MODULE SessionRunsProofs -------------------------
(***************************************************************************)
(* What holds of the runs of a session for any number of runs and of       *)
(* questions.                                                              *)
(*                                                                         *)
(* The type invariant comes first, with the messages to the window typed   *)
(* as well.  IInv adds what the registry relies on: runs are started in    *)
(* the order of their numbers, so a run that starts is new to the main     *)
(* process and nobody waits for it; a request that listens is one its live *)
(* run made, so the setup of a run cannot throw while its questions are    *)
(* open; an awaited request that shares its id with a listening one is     *)
(* marked as clashed, so the first listener of the others' ids is their    *)
(* own; and a terminal is the last thing a run does, so what is frozen     *)
(* stays paused.                                                           *)
(* ResumedOnce needs more: a frozen run is a token that is in one place    *)
(* only, and once it exists the terminal that made it cannot come again.   *)
(***************************************************************************)
EXTENDS SessionRuns, TLAPS, FiniteSetTheorems, SequenceTheorems

(* What the main process sends back is a request or a terminal of a run. *)
Sent == [op : {"ask"}, request : Request] \cup [op : {"done"}, run : Run]
ViewType == toView \in Seq(Sent)

(* TypeOK in five parts.                                                    *)
FlagType ==
  /\ queued \in BOOLEAN /\ sending \in BOOLEAN
  /\ timer \in BOOLEAN
  /\ always \in BOOLEAN

QueueType ==
  /\ status \in {"InProgress", "NeedsInput"}
  /\ writes \in Seq(Write)

FreezeType ==
  /\ frozen \in 0..MaxRuns
  /\ dock \subseteq Request
  /\ view \in [Run -> {"none", "live", "final"}]
  /\ source \in [Run -> 0..MaxRuns]

MainType ==
  /\ main \in [Run -> Stage]
  /\ terminal \in [Run -> Reason \cup {"none"}]
  /\ aborted \in [Run -> BOOLEAN]
  /\ controller \in 0..MaxRuns

ApprovalType ==
  /\ pending \subseteq Request
  /\ awaiting \subseteq Request
  /\ listening \subseteq Request /\ clashed \subseteq Request
  /\ asked \in [Run -> 0..MaxAsks]
  /\ granted \subseteq Request

IType == FlagType /\ QueueType /\ FreezeType /\ MainType /\ ApprovalType /\ ViewType

(* The parts are TypeOK and the type of the channel.                         *)
LEMMA TypeParts == IType <=> TypeOK /\ ViewType
BY DEF IType, TypeOK, FlagType, QueueType, FreezeType, MainType, ApprovalType

(* The program starts inside its types.                                      *)
LEMMA TypeInit == Init => IType
<1> SUFFICES ASSUME Init PROVE IType
  OBVIOUS
<1>1. FlagType
  BY Zenon DEF Init, FlagType
<1>2. QueueType
  BY EmptySeq DEF Init, QueueType
<1>3. FreezeType
  BY SessionRunsAssumption DEF Init, FreezeType
<1>4. MainType
  BY SessionRunsAssumption DEF Init, MainType, Stage
<1>5. ApprovalType
  BY SessionRunsAssumption DEF Init, ApprovalType
<1>6. ViewType
  BY EmptySeq DEF Init, ViewType
<1> QED
  BY <1>1, <1>2, <1>3, <1>4, <1>5, <1>6 DEF IType

(* What the callers enqueue.                                                 *)
LEMMA WritesTyped ==
  /\ ComposerSend \in Write
  /\ [op |-> "send", by |-> "card"] \in Write
  /\ [op |-> "stop"] \in Write
  /\ \A r \in Run : [op |-> "resume", of |-> r] \in Write
  /\ \A w \in Write : w.op = "resume" => w.of \in Run
BY DEF ComposerSend, Write

(* status.set(NeedsInput) leaves a sound queue behind. *)
LEMMA NeedsInputType ==
  ASSUME QueueType, NEW ws \in Seq(Write), NeedsInput(ws)
  PROVE  QueueType'
<1>1. Append(ws, ComposerSend) \in Seq(Write)
  BY WritesTyped, AppendProperties
<1>2. writes' = Append(ws, ComposerSend) \/ writes' = ws
  BY DEF NeedsInput
<1> QED
  BY <1>1, <1>2 DEF QueueType, NeedsInput

(* ... and sound flags.                                                      *)
LEMMA NeedsInputFlags ==
  ASSUME FlagType, NEW ws, NeedsInput(ws), timer' \in BOOLEAN, UNCHANGED always
  PROVE  FlagType'
BY Zenon DEF FlagType, NeedsInput, composerVars

(* A fold keeps the queue and the freeze in their types ...                  *)
LEMMA FoldType ==
  ASSUME QueueType, FreezeType, NEW rs, NEW q \in Run, Fold(rs, q), UNCHANGED source
  PROVE  QueueType' /\ FreezeType'
<1> USE SessionRunsAssumption
<1>1. CASE rs \cap LiveViews = {}
  BY <1>1 DEF Fold, QueueType, FreezeType, composerVars
<1>2. CASE rs \cap LiveViews # {}
  <2>1. QueueType'
    BY <1>2, NeedsInputType DEF Fold, QueueType
  <2>2. FreezeType'
    BY <1>2 DEF Fold, FreezeType, Run
  <2> QED
    BY <2>1, <2>2
<1> QED
  BY <1>1, <1>2

(* ... and the flags.                                                        *)
LEMMA FoldFlags ==
  ASSUME FlagType, NEW rs, NEW q, Fold(rs, q), UNCHANGED always
  PROVE  FlagType'
<1>1. CASE rs \cap LiveViews = {}
  BY Zenon, <1>1 DEF Fold, FlagType, composerVars
<1>2. CASE rs \cap LiveViews # {}
  <2>1. timer' \in BOOLEAN
    BY Zenon, <1>2 DEF Fold, FlagType
  <2>2. NeedsInput(writes)
    BY Zenon, <1>2 DEF Fold
  <2> QED
    BY <2>1, <2>2, NeedsInputFlags
<1> QED
  BY <1>1, <1>2

(* So does the start of a run.                                               *)
LEMMA StartType ==
  ASSUME FreezeType, MainType, NEW of \in 0..MaxRuns, StartRun(of)
  PROVE  /\ view' \in [Run -> {"none", "live", "final"}]
         /\ source' \in [Run -> 0..MaxRuns]
         /\ main' \in [Run -> Stage]
BY DEF StartRun, FreezeType, MainType, Stage

(* An answer leaves the allowlist's flag a flag.                             *)
LEMMA AnswerFlag ==
  ASSUME FlagType, NEW id, NEW answer, Answered(id, answer)
  PROVE  always' \in BOOLEAN
BY Zenon DEF FlagType, Answered

(* The Boolean flags, action by action. *)
LEMMA FlagStep == FlagType /\ [Next]_vars => FlagType'
<1> SUFFICES ASSUME FlagType, [Next]_vars PROVE FlagType'
  OBVIOUS
<1> USE DEF composerVars, sessionVars, mainVars, approvalVars, viewFrame
<1>1. CASE User
  <2>1. CASE ComposerSubmit
    BY Zenon, <2>1 DEF FlagType, ComposerSubmit
  <2>2. CASE CardSend
    BY Zenon, <2>2 DEF FlagType, CardSend
  <2>3. CASE StopSession
    BY Zenon, <2>3 DEF FlagType, StopSession
  <2>4. ASSUME NEW q \in dock, NEW answer \in Answer, Respond(q, answer) PROVE FlagType'
    BY Zenon, <2>4 DEF FlagType, Respond
  <2>5. CASE ResumeSession
    BY Zenon, <2>5 DEF FlagType, ResumeSession, TakeFreeze
  <2> QED
    BY <1>1, <2>1, <2>2, <2>3, <2>4, <2>5 DEF User
<1>2. CASE AutoResume
  BY Zenon, <1>2 DEF FlagType, AutoResume, TakeFreeze
<1>3. CASE WriteSettles
  <2>0. UNCHANGED always
    BY <1>3 DEF WriteSettles
  <2>1. CASE SendWritten
    BY Zenon, <2>0, <2>1 DEF FlagType, SendWritten
  <2>2. CASE ResumeWritten
    BY Zenon, <2>0, <2>2 DEF FlagType, ResumeWritten
  <2>3. CASE StopWritten
    <3>1. NeedsInput(Tail(writes)) /\ UNCHANGED timer
      BY <2>3 DEF StopWritten
    <3>2. timer' \in BOOLEAN
      BY Zenon, <3>1 DEF FlagType
    <3> QED
      BY <2>0, <3>1, <3>2, NeedsInputFlags
  <2>4. CASE WriteFails
    BY Zenon, <2>0, <2>4 DEF FlagType, WriteFails
  <2> QED
    BY <1>3, <2>1, <2>2, <2>3, <2>4 DEF WriteSettles
<1>4. CASE MainReceives
  <2>0. UNCHANGED <<queued, sending, timer>>
    BY <1>4 DEF MainReceives
  <2>1. CASE StopArrives
    BY Zenon, <2>0, <2>1 DEF FlagType, StopArrives
  <2>2. CASE AnswerArrives
    BY Zenon, <2>0, <2>2, AnswerFlag DEF FlagType, AnswerArrives
  <2> QED
    BY <1>4, <2>1, <2>2 DEF MainReceives
<1>5. CASE ViewReceives
  <2>0. UNCHANGED always
    BY <1>5 DEF ViewReceives
  <2>1. CASE AskArrives
    <3>1. UNCHANGED timer /\ (UNCHANGED <<queued, sending>> \/ NeedsInput(writes))
      BY <2>1 DEF AskArrives
    <3>2. timer' \in BOOLEAN
      BY Zenon, <3>1 DEF FlagType
    <3>3. CASE UNCHANGED <<queued, sending>>
      BY Zenon, <2>0, <3>1, <3>3 DEF FlagType
    <3> QED
      BY <2>0, <3>1, <3>2, <3>3, NeedsInputFlags
  <2>2. CASE DoneArrives
    BY <2>0, <2>2, FoldFlags DEF DoneArrives
  <2>3. CASE DoneLost
    BY Zenon, <2>0, <2>3 DEF FlagType, DoneLost
  <2> QED
    BY <1>5, <2>1, <2>2, <2>3 DEF ViewReceives
<1>6. ASSUME NEW r \in Run, RunStep(r) \/ QuotaStop(r) PROVE FlagType'
  <2>1. UNCHANGED <<queued, sending, timer, always>>
    BY <1>6 DEF RunStep, Register, SetupThrows, Ask, AskFrame, LoopEnds, LoopThrows, QuotaStop
  <2> QED
    BY Zenon, <2>1 DEF FlagType
<1>7. ASSUME NEW r \in Run, ProviderStep(r) PROVE FlagType'
  <2>1. Fold({r}, r) /\ UNCHANGED always
    BY <1>7 DEF ProviderStep, PromiseRejects, Fallback
  <2> QED
    BY <2>1, FoldFlags
<1>8. ASSUME NEW id \in SharedIds, OtherSession(id) PROVE FlagType'
  <2>1. UNCHANGED <<queued, sending, timer>>
    BY <1>8 DEF OtherSession
  <2>2. always' \in BOOLEAN
    <3>1. CASE UNCHANGED always
      BY Zenon, <3>1 DEF FlagType
    <3>2. CASE \E answer \in Answer : Answered(id, answer)
      BY <3>2, AnswerFlag
    <3> QED
      BY <1>8, <3>1, <3>2 DEF OtherSession
  <2> QED
    BY Zenon, <2>1, <2>2 DEF FlagType
<1>9. CASE UNCHANGED vars
  BY Zenon, <1>9 DEF vars, FlagType
<1> QED
  BY <1>1, <1>2, <1>3, <1>4, <1>5, <1>6, <1>7, <1>8, <1>9 DEF Next, Progress

(* What a write's caller does once the write has settled. *)
LEMMA WriteSettlesType ==
  ASSUME IType, WriteSettles
  PROVE  QueueType' /\ FreezeType' /\ MainType' /\ ApprovalType' /\ ViewType'
<1> USE DEF IType
<1>0. writes \in Seq(Write) /\ Head(writes) \in Write /\ Tail(writes) \in Seq(Write)
  <2>1. writes \in Seq(Write) /\ writes # <<>>
    BY DEF WriteSettles, QueueType
  <2> QED
    BY <2>1, HeadTailProperties
<1>1. ApprovalType' /\ ViewType' /\ UNCHANGED <<terminal, aborted, controller>>
  BY DEF WriteSettles, approvalVars, ApprovalType, ViewType
<1>2. CASE SendWritten
  <2>1. 0 \in 0..MaxRuns
    BY SessionRunsAssumption
  <2>2. StartRun(0) /\ frozen' = 0 /\ dock' = dock /\ writes' = Tail(writes) /\ status' = "InProgress"
    BY <1>2 DEF SendWritten
  <2> QED
    BY <1>0, <1>1, <2>1, <2>2, StartType DEF QueueType, FreezeType, MainType
<1>3. CASE ResumeWritten
  <2>1. Head(writes).of \in Run
    BY <1>0, <1>3, WritesTyped DEF ResumeWritten
  <2>2. Head(writes).of \in 0..MaxRuns
    BY <2>1, SessionRunsAssumption DEF Run
  <2>3. StartRun(Head(writes).of) /\ UNCHANGED <<frozen, dock>> /\ writes' = Tail(writes) /\ status' = "InProgress"
    BY <1>3 DEF ResumeWritten
  <2> QED
    BY <1>0, <1>1, <2>2, <2>3, StartType DEF QueueType, FreezeType, MainType
<1>4. CASE StopWritten
  <2>1. NeedsInput(Tail(writes)) /\ UNCHANGED <<frozen, dock, view, source, main>>
    BY <1>4 DEF StopWritten, sessionVars
  <2>2. QueueType'
    BY <1>0, <2>1, NeedsInputType
  <2> QED
    BY <1>1, <2>1, <2>2 DEF FreezeType, MainType
<1>5. CASE WriteFails
  <2>1. writes' = Tail(writes) /\ UNCHANGED <<status, frozen, dock, view, source, main>>
    BY <1>5 DEF WriteFails, sessionVars
  <2> QED
    BY <1>0, <1>1, <2>1 DEF QueueType, FreezeType, MainType
<1> QED
  BY <1>2, <1>3, <1>4, <1>5 DEF WriteSettles

(* What the window does with what the main process sent.                     *)
LEMMA ViewReceivesType ==
  ASSUME IType, ViewReceives
  PROVE  QueueType' /\ FreezeType' /\ MainType' /\ ApprovalType' /\ ViewType'
<1> USE DEF IType
<1>0. Head(toView) \in Sent /\ Tail(toView) \in Seq(Sent)
  <2>1. toView \in Seq(Sent) /\ toView # <<>>
    BY DEF ViewReceives, ViewType
  <2> QED
    BY <2>1, HeadTailProperties
<1>1. MainType' /\ ApprovalType' /\ ViewType' /\ UNCHANGED source
  BY <1>0 DEF ViewReceives, mainVars, approvalVars, MainType, ApprovalType, ViewType
<1>2. CASE AskArrives
  <2>1. Head(toView).request \in Request
    BY <1>0, <1>2 DEF AskArrives, Sent
  <2>2. QueueType'
    <3>1. UNCHANGED <<status, writes>> \/ NeedsInput(writes)
      BY <1>2 DEF AskArrives
    <3> QED
      BY <3>1, NeedsInputType DEF QueueType
  <2>3. FreezeType'
    BY <1>1, <1>2, <2>1 DEF AskArrives, FreezeType
  <2> QED
    BY <1>1, <2>2, <2>3
<1>3. CASE DoneArrives
  <2>1. Head(toView).run \in Run
    BY <1>0, <1>3 DEF DoneArrives, Sent
  <2>2. Fold(LiveViews, Head(toView).run)
    BY <1>3 DEF DoneArrives
  <2> QED
    BY <1>1, <2>1, <2>2, FoldType
<1>4. CASE DoneLost
  BY <1>1, <1>4 DEF DoneLost, QueueType, FreezeType
<1> QED
  BY <1>2, <1>3, <1>4 DEF ViewReceives

(* What a run's handler does.                                                *)
LEMMA RunStepType ==
  ASSUME IType, NEW r \in Run, RunStep(r)
  PROVE  QueueType' /\ FreezeType' /\ MainType' /\ ApprovalType' /\ ViewType'
<1> USE DEF IType
<1>0. QueueType' /\ FreezeType'
  <2>1. UNCHANGED <<status, writes, frozen, dock, view, source>>
    BY DEF RunStep, Register, SetupThrows, Ask, AskFrame, LoopEnds, LoopThrows, viewFrame
  <2> QED
    BY <2>1 DEF QueueType, FreezeType
<1>1. CASE Register(r)
  BY <1>0, <1>1, SessionRunsAssumption
  DEF Register, Run, Stage, approvalVars, MainType, ApprovalType, ViewType
<1>2. CASE SetupThrows(r)
  BY <1>0, <1>2
  DEF SetupThrows, Discard, OfRun, Stage, Reason, MainType, ApprovalType, ViewType
<1>3. CASE Ask(r)
  <2>0. asked[r] + 1 \in 0..MaxAsks /\ asked[r] + 1 \in 1..MaxAsks
    BY <1>3, SessionRunsAssumption DEF Ask, ApprovalType
  <2>1. PICK q \in Request :
          \/ NotPut /\ granted' \subseteq granted \cup {q}
          \/ PutToUser(q)
    <3>1. PICK id \in CallIds :
            LET q == [run |-> r, call |-> asked[r] + 1, id |-> id]
            IN \/ NotPut /\ granted' \subseteq granted \cup {q}
               \/ PutToUser(q)
      BY <1>3 DEF Ask
    <3>2. [run |-> r, call |-> asked[r] + 1, id |-> id] \in Request
      BY <2>0 DEF Request
    <3> QED
      BY <3>1, <3>2
  <2>2. [op |-> "ask", request |-> q] \in Sent
    BY DEF Sent
  <2>3. MainType'
    BY <1>3 DEF Ask, AskFrame, MainType
  <2>4. ApprovalType'
    <3>1. asked' \in [Run -> 0..MaxAsks]
      BY <1>3, <2>0 DEF Ask, ApprovalType
    <3> QED
      BY <2>1, <3>1 DEF NotPut, PutToUser, WithId, ApprovalType
  <2>5. ViewType'
    <3>1. toView' = toView \/ toView' = Append(toView, [op |-> "ask", request |-> q])
      BY <2>1 DEF NotPut, PutToUser
    <3> QED
      BY <2>2, <3>1, AppendProperties DEF ViewType
  <2> QED
    BY <1>0, <2>3, <2>4, <2>5
<1>4. ASSUME NEW reason \in {"settled", "paused"}, LoopEnds(r, reason)
      PROVE  MainType' /\ ApprovalType' /\ ViewType'
  <2>1. [op |-> "done", run |-> r] \in Sent
    BY DEF Sent
  <2>2. ViewType'
    BY <1>4, <2>1, AppendProperties DEF LoopEnds, Return, ViewType
  <2>3. MainType' /\ ApprovalType'
    BY <1>4, SessionRunsAssumption
    DEF LoopEnds, Return, CleanUp, Discard, OfRun, Stage, Reason, MainType, ApprovalType
  <2> QED
    BY <2>2, <2>3
<1>5. CASE LoopThrows(r)
  BY <1>0, <1>5, SessionRunsAssumption
  DEF LoopThrows, CleanUp, Discard, OfRun, Stage, Reason, MainType, ApprovalType, ViewType
<1> QED
  BY <1>0, <1>1, <1>2, <1>3, <1>4, <1>5 DEF RunStep

(* What an abort, and an answer, can do to the registry.                     *)
LEMMA AbortShape ==
  ASSUME NEW r, Abort(r)
  PROVE  /\ aborted' = aborted \/ aborted' = [aborted EXCEPT ![r] = TRUE]
         /\ pending' \subseteq pending /\ awaiting' \subseteq awaiting
BY DEF Abort

LEMMA AnswerShape ==
  ASSUME NEW id, NEW answer, Answered(id, answer)
  PROVE  /\ pending' \subseteq pending /\ awaiting' \subseteq awaiting
         /\ granted' \subseteq granted \cup pending
BY DEF Answered, WithId

(* The types are kept, action by action.                                     *)
LEMMA TypeStep == IType /\ [Next]_vars => IType'
<1> SUFFICES ASSUME IType, [Next]_vars
             PROVE  QueueType' /\ FreezeType' /\ MainType' /\ ApprovalType' /\ ViewType'
  BY FlagStep DEF IType
<1> USE DEF IType
<1>1. CASE User
  <2>0. CASE writes' = writes \/ \E w \in Write : writes' = Append(writes, w)
    <3>1. writes' \in Seq(Write)
      BY <2>0, AppendProperties DEF QueueType
    <3>2. CASE ComposerSubmit
      BY <3>1, <3>2
      DEF ComposerSubmit, QueueType, FreezeType, MainType, ApprovalType, ViewType,
          sessionVars, mainVars, approvalVars
    <3>3. CASE CardSend
      BY <3>1, <3>3
      DEF CardSend, QueueType, FreezeType, MainType, ApprovalType, ViewType,
          sessionVars, mainVars, approvalVars
    <3>4. CASE StopSession
      BY <3>1, <3>4
      DEF StopSession, QueueType, FreezeType, MainType, ApprovalType, ViewType,
          sessionVars, mainVars, approvalVars
    <3>5. ASSUME NEW q \in dock, NEW answer \in Answer, Respond(q, answer)
          PROVE  QueueType' /\ FreezeType' /\ MainType' /\ ApprovalType' /\ ViewType'
      BY <3>1, <3>5
      DEF Respond, QueueType, FreezeType, MainType, ApprovalType, ViewType,
          mainVars, approvalVars
    <3>6. CASE ResumeSession
      BY <3>1, <3>6, SessionRunsAssumption
      DEF ResumeSession, TakeFreeze, QueueType, FreezeType, MainType, ApprovalType,
          ViewType, mainVars, approvalVars
    <3> QED
      BY <1>1, <3>2, <3>3, <3>4, <3>5, <3>6 DEF User
  <2>1. writes' = writes \/ \E w \in Write : writes' = Append(writes, w)
    <3>1. ResumeSession => frozen \in Run
      BY DEF ResumeSession, FreezeType, Run
    <3> QED
      BY <1>1, <3>1, WritesTyped
      DEF User, ComposerSubmit, CardSend, StopSession, Respond, ResumeSession,
          TakeFreeze
  <2> QED
    BY <2>0, <2>1
<1>2. CASE AutoResume
  <2>1. frozen # 0 => [op |-> "resume", of |-> frozen] \in Write
    BY WritesTyped DEF FreezeType, Run
  <2>2. writes' \in Seq(Write)
    BY <1>2, <2>1, AppendProperties DEF AutoResume, TakeFreeze, QueueType
  <2> QED
    BY <1>2, <2>2, SessionRunsAssumption
    DEF AutoResume, TakeFreeze, QueueType, FreezeType, MainType, ApprovalType,
        ViewType, mainVars, approvalVars
<1>3. CASE WriteSettles
  BY <1>3, WriteSettlesType
<1>4. CASE MainReceives
  <2>1. UNCHANGED <<status, writes, frozen, dock, view, source, main, terminal, controller,
                    listening, clashed, asked, toView>>
    BY <1>4 DEF MainReceives, viewFrame
  <2>2. QueueType' /\ FreezeType' /\ ViewType'
    BY <2>1 DEF QueueType, FreezeType, ViewType
  <2>3. aborted' \in [Run -> BOOLEAN]
    <3>1. aborted' = aborted \/ \E c \in 1..MaxRuns : aborted' = [aborted EXCEPT ![c] = TRUE]
      BY <1>4, AbortShape DEF MainReceives, StopArrives, AnswerArrives, MainType
    <3> QED
      BY <3>1 DEF MainType
  <2>4. pending' \subseteq pending /\ awaiting' \subseteq awaiting /\ granted' \subseteq granted \cup pending
    BY <1>4, AbortShape, AnswerShape DEF MainReceives, StopArrives, AnswerArrives
  <2> QED
    BY <2>1, <2>2, <2>3, <2>4 DEF MainType, ApprovalType
<1>5. CASE ViewReceives
  BY <1>5, ViewReceivesType
<1>6. ASSUME NEW r \in Run, RunStep(r)
      PROVE  QueueType' /\ FreezeType' /\ MainType' /\ ApprovalType' /\ ViewType'
  BY <1>6, RunStepType
<1>7. ASSUME NEW r \in Run, QuotaStop(r)
      PROVE  QueueType' /\ FreezeType' /\ MainType' /\ ApprovalType' /\ ViewType'
  BY <1>7, AbortShape
  DEF QuotaStop, viewFrame, QueueType, FreezeType, MainType, ApprovalType, ViewType
<1>8. ASSUME NEW r \in Run, ProviderStep(r)
      PROVE  QueueType' /\ FreezeType' /\ MainType' /\ ApprovalType' /\ ViewType'
  <2>1. Fold({r}, r) /\ UNCHANGED <<source, mainVars, toView>>
    BY <1>8 DEF ProviderStep, PromiseRejects, Fallback
  <2>2. QueueType' /\ FreezeType'
    BY <2>1, FoldType
  <2> QED
    BY <2>1, <2>2 DEF mainVars, approvalVars, MainType, ApprovalType, ViewType
<1>9. ASSUME NEW id \in SharedIds, OtherSession(id)
      PROVE  QueueType' /\ FreezeType' /\ MainType' /\ ApprovalType' /\ ViewType'
  <2>1. pending' \subseteq pending /\ awaiting' \subseteq awaiting /\ granted' \subseteq granted \cup pending
    BY <1>9, AnswerShape DEF OtherSession
  <2> QED
    BY <1>9, <2>1
    DEF OtherSession, viewFrame, QueueType, FreezeType, MainType, ApprovalType, ViewType
<1>10. CASE UNCHANGED vars
  BY <1>10
  DEF vars, sessionVars, mainVars, approvalVars, QueueType, FreezeType, MainType,
      ApprovalType, ViewType
<1> QED
  BY <1>1, <1>2, <1>3, <1>4, <1>5, <1>6, <1>7, <1>8, <1>9, <1>10 DEF Next, Progress

(* Every variable keeps its shape, for any number of runs and of questions.  *)
THEOREM TypeCorrect == Spec => []TypeOK
<1>1. Spec => []IType
  BY TypeInit, TypeStep, PTL DEF Spec
<1> QED
  BY <1>1, TypeParts, PTL

-----------------------------------------------------------------------------
(* Runs are started in the order of their numbers, so the next one is new to *)
(* the main process.                                                         *)
ViewsInOrder == \E n \in 0..MaxRuns : \A r \in Run : view[r] # "none" <=> r <= n

UnseenUncalled == \A r \in Run : view[r] = "none" => main[r] = "none"

(* A request that listens is one its live run made: the handler is past the  *)
(* setup.                                                                    *)
RequestsMade ==
  \A q \in listening : main[q.run] = "running" /\ q.call <= asked[q.run]

(* What the gate awaits is listened for, and alone under its id unless it    *)
(* clashed.                                                                  *)
IdsAccounted ==
  /\ awaiting \subseteq listening
  /\ \A p \in awaiting, q \in listening : p.id = q.id /\ p # q => p \in clashed

TerminalIsLast == \A r \in Run : terminal[r] # "none" => main[r] = "ended"

(* The two halves of TimerGuardsFreeze.                                      *)
ArmedForFreeze == timer => frozen # 0
FrozenPaused == frozen # 0 => terminal[frozen] = "paused"

IInv ==
  /\ IType
  /\ ViewsInOrder /\ UnseenUncalled
  /\ ApprovalsAccounted /\ RequestsMade /\ IdsAccounted
  /\ TerminalIsLast /\ FrozenPaused

Registry == ApprovalsAccounted /\ RequestsMade /\ IdsAccounted

(* The invariant holds at the start.                                         *)
LEMMA InvInit == Init => IInv /\ ArmedForFreeze
<1> SUFFICES ASSUME Init PROVE IInv /\ ArmedForFreeze
  OBVIOUS
<1>1. IType
  BY TypeInit
<1>2. ViewsInOrder
  <2>1. \A r \in Run : view[r] # "none" <=> r <= 0
    BY DEF Init, Run
  <2> QED
    BY <2>1, SessionRunsAssumption DEF ViewsInOrder
<1>3. UnseenUncalled /\ TerminalIsLast /\ FrozenPaused
  BY DEF Init, UnseenUncalled, TerminalIsLast, FrozenPaused
<1>4. Registry
  BY DEF Init, Registry, ApprovalsAccounted, RequestsMade, IdsAccounted
<1>5. ArmedForFreeze
  BY Zenon DEF Init, ArmedForFreeze
<1> QED
  BY <1>1, <1>2, <1>3, <1>4, <1>5 DEF IInv, Registry

(* The number StartRun takes belongs to no run yet. *)
LEMMA NextRunIsNew ==
  ASSUME IInv, NEW r, r = Cardinality({q \in Run : view[q] # "none"}) + 1
  PROVE  /\ r \in Nat
         /\ r \in Run => view[r] = "none" /\ main[r] = "none" /\ terminal[r] = "none"
         /\ \A q \in Run : view[q] # "none" <=> q <= r - 1
<1>1. PICK n \in 0..MaxRuns : \A q \in Run : view[q] # "none" <=> q <= n
  BY DEF IInv, ViewsInOrder
<1>2. n \in Nat /\ MaxRuns \in Nat
  BY SessionRunsAssumption
<1>3. {q \in Run : view[q] # "none"} = 1..n
  BY <1>1, <1>2 DEF Run
<1>4. Cardinality(1..n) = n
  BY <1>2, FS_Interval
<1>5. r = n + 1
  BY <1>3, <1>4
<1>6. r \in Run => view[r] = "none"
  BY <1>1, <1>2, <1>5 DEF Run
<1>7. r \in Run => main[r] = "none" /\ terminal[r] = "none"
  BY <1>6 DEF IInv, UnseenUncalled, TerminalIsLast
<1>8. r \in Nat /\ n = r - 1
  BY <1>2, <1>5
<1> QED
  BY <1>1, <1>6, <1>7, <1>8

(* The registry looks at nothing but its own state and the stages of the     *)
(* runs that listen.                                                         *)
LEMMA RegistryFrame ==
  ASSUME IInv, UNCHANGED <<aborted, approvalVars>>,
         \A q \in listening : main'[q.run] = main[q.run]
  PROVE  Registry'
<1>1. awaiting \subseteq listening
  BY DEF IInv, IdsAccounted
<1>2. ApprovalsAccounted'
  BY <1>1 DEF IInv, ApprovalsAccounted, Ambiguous, approvalVars
<1>3. RequestsMade' /\ IdsAccounted'
  BY DEF IInv, RequestsMade, IdsAccounted, approvalVars
<1> QED
  BY <1>2, <1>3 DEF Registry

(* StartRun keeps the numbering, and disturbs no run there is.  A run beyond *)
(* the bound is no run.                                                      *)
LEMMA StartKeeps ==
  ASSUME IInv, NEW of, StartRun(of), UNCHANGED <<terminal, aborted, approvalVars>>
  PROVE  /\ ViewsInOrder' /\ UnseenUncalled'
         /\ Registry'
         /\ TerminalIsLast'
<1> DEFINE r == Cardinality({q \in Run : view[q] # "none"}) + 1
<1>0. /\ view' = [view EXCEPT ![r] = "live"]
      /\ main' = [main EXCEPT ![r] = "called"]
  BY DEF StartRun
<1>1. /\ r \in Nat
      /\ r \in Run => view[r] = "none" /\ main[r] = "none" /\ terminal[r] = "none"
      /\ \A q \in Run : view[q] # "none" <=> q <= r - 1
  BY NextRunIsNew
<1>2. view \in [Run -> {"none", "live", "final"}] /\ main \in [Run -> Stage]
  BY DEF IInv, IType, FreezeType, MainType
<1> HIDE DEF r
<1>3. \A q \in Run : view'[q] = IF q = r THEN "live" ELSE view[q]
  BY <1>0, <1>2
<1>4. \A q \in Run : main'[q] = IF q = r THEN "called" ELSE main[q]
  BY <1>0, <1>2
<1>5. ViewsInOrder'
  <2>1. CASE r \in Run
    <3>1. \A q \in Run : view'[q] # "none" <=> q <= r
      BY <1>1, <1>3, <2>1 DEF Run
    <3>2. r \in 0..MaxRuns
      BY <2>1, SessionRunsAssumption DEF Run
    <3> QED
      BY <3>1, <3>2 DEF ViewsInOrder
  <2>2. CASE r \notin Run
    <3>1. \A q \in Run : view'[q] = view[q]
      BY <1>3, <2>2
    <3> QED
      BY <3>1 DEF IInv, ViewsInOrder
  <2> QED
    BY <2>1, <2>2
<1>6. UnseenUncalled'
  BY <1>3, <1>4 DEF IInv, UnseenUncalled
<1>7. Registry'
  <2>1. \A q \in listening : q.run \in Run /\ main[q.run] = "running"
    BY DEF IInv, IType, ApprovalType, RequestsMade, Request
  <2>2. \A q \in listening : main'[q.run] = main[q.run]
    BY <1>1, <1>4, <2>1
  <2> QED
    BY <2>2, RegistryFrame DEF approvalVars
<1>9. TerminalIsLast'
  BY <1>1, <1>4 DEF IInv, TerminalIsLast
<1> QED
  BY <1>5, <1>6, <1>7, <1>9

(* A fold moves no view back and none out of turn. *)
LEMMA FoldKeeps ==
  ASSUME IInv, NEW rs, NEW q \in Run, Fold(rs, q), UNCHANGED <<main, terminal>>
  PROVE  ViewsInOrder' /\ UnseenUncalled' /\ FrozenPaused'
<1>1. \A r \in Run : view'[r] # "none" <=> view[r] # "none"
  <2>1. CASE rs \cap LiveViews = {}
    BY <2>1 DEF Fold
  <2>2. CASE rs \cap LiveViews # {}
    BY <2>2 DEF Fold, LiveViews
  <2> QED
    BY <2>1, <2>2
<1>2. ViewsInOrder' /\ UnseenUncalled'
  BY <1>1 DEF IInv, ViewsInOrder, UnseenUncalled
<1>3. FrozenPaused'
  BY DEF Fold, IInv, FrozenPaused
<1> QED
  BY <1>2, <1>3

(* A request put to the user is alone under its id, or marked with the       *)
(* awaited ones it meets there: the entry it displaces is among them.        *)
LEMMA PutKeeps ==
  ASSUME IInv, NEW q \in Request, PutToUser(q), main[q.run] = "running", ~aborted[q.run],
         UNCHANGED <<main, aborted>>,
         asked' \in [Run -> Nat], \A r \in Run : asked[r] <= asked'[r], q.call <= asked'[q.run]
  PROVE  Registry'
<1> DEFINE same == WithId(listening, q.id)
<1>0. /\ pending' = (pending \ WithId(pending, q.id)) \cup {q}
      /\ awaiting' = awaiting \cup {q} /\ listening' = listening \cup {q}
      /\ clashed' = IF same = {} THEN clashed ELSE clashed \cup (same \cap awaiting) \cup {q}
  BY DEF PutToUser
<1>1. /\ pending \subseteq awaiting /\ awaiting \subseteq listening /\ listening \subseteq Request
      /\ asked \in [Run -> 0..MaxAsks]
  BY DEF IInv, IType, ApprovalType, ApprovalsAccounted, IdsAccounted
<1>2. clashed \subseteq clashed' /\ \A p \in awaiting : p.id = q.id => p \in clashed'
  BY <1>0, <1>1 DEF WithId
<1>3. \A p \in listening : p.id = q.id => q \in clashed'
  BY <1>0 DEF WithId
<1>4. ApprovalsAccounted'
  <2>1. \A p \in awaiting' : main[p.run] = "running"
    BY <1>0 DEF IInv, ApprovalsAccounted
  <2>2. \A p \in awaiting' : p \in pending' \/ p \in clashed' \/ p.id \in SharedIds
    BY <1>0, <1>2 DEF IInv, ApprovalsAccounted, Ambiguous, WithId
  <2>3. pending' \subseteq awaiting' /\ \A p \in pending' : ~aborted[p.run]
    BY <1>0, <1>1 DEF IInv, ApprovalsAccounted
  <2> QED
    BY <2>1, <2>2, <2>3 DEF ApprovalsAccounted, Ambiguous
<1>5. RequestsMade'
  <2>1. \A p \in listening : p.run \in Run /\ p.call \in Nat /\ main[p.run] = "running" /\ p.call <= asked[p.run]
    BY <1>1, SessionRunsAssumption DEF IInv, RequestsMade, Request
  <2>2. \A p \in listening : p.call <= asked'[p.run]
    BY <1>1, <2>1, SessionRunsAssumption
  <2> QED
    BY <1>0, <2>1, <2>2 DEF RequestsMade
<1>6. IdsAccounted'
  BY <1>0, <1>1, <1>2, <1>3 DEF IInv, IdsAccounted
<1> QED
  BY <1>4, <1>5, <1>6 DEF Registry

(* Asking keeps the registry and the gate together. *)
LEMMA AskKeeps ==
  ASSUME IInv, NEW r \in Run, Ask(r)
  PROVE  Registry'
<1>0. /\ asked \in [Run -> 0..MaxAsks] /\ listening \subseteq Request
      /\ main[r] = "running" /\ UNCHANGED <<main, aborted>>
      /\ asked' = [asked EXCEPT ![r] = @ + 1] /\ asked[r] < MaxAsks
  BY DEF Ask, AskFrame, IInv, IType, ApprovalType
<1>1. /\ asked' \in [Run -> Nat] /\ \A k \in Run : asked[k] <= asked'[k]
      /\ asked'[r] = asked[r] + 1 /\ asked[r] + 1 \in 1..MaxAsks
  BY <1>0, SessionRunsAssumption
<1>2. CASE NotPut
  <2>1. UNCHANGED <<pending, awaiting, listening, clashed>>
    BY <1>2 DEF NotPut
  <2>2. \A p \in listening : p.call <= asked'[p.run]
    <3>1. \A p \in listening : p.run \in Run /\ p.call \in Nat /\ p.call <= asked[p.run]
      BY <1>0, SessionRunsAssumption DEF IInv, RequestsMade, Request
    <3> QED
      BY <1>0, <1>1, <3>1, SessionRunsAssumption
  <2> QED
    BY <1>0, <2>1, <2>2
    DEF IInv, Registry, ApprovalsAccounted, Ambiguous, RequestsMade, IdsAccounted
<1>3. ASSUME NEW id \in CallIds, ~aborted[r], PutToUser([run |-> r, call |-> asked[r] + 1, id |-> id])
      PROVE  Registry'
  <2> DEFINE q == [run |-> r, call |-> asked[r] + 1, id |-> id]
  <2>1. q \in Request /\ q.run = r /\ q.call = asked[r] + 1
    BY <1>1 DEF Request
  <2>2. PutToUser(q)
    BY <1>3
  <2> HIDE DEF q
  <2>3. q.call <= asked'[q.run]
    BY <1>1, <2>1
  <2> QED
    BY <1>0, <1>1, <1>3, <2>1, <2>2, <2>3, PutKeeps
<1> QED
  BY <1>2, <1>3 DEF Ask

(* What is left of a run that is over, in the registry: nothing.             *)
LEMMA DiscardKeeps ==
  ASSUME IInv, NEW r \in Run, Discard(r), main' = [main EXCEPT ![r] = "ended"], UNCHANGED asked,
         OfRun(awaiting, r) = {},
         pending' \subseteq pending, awaiting' \subseteq awaiting, pending' \subseteq awaiting',
         \A q \in awaiting' : q \in pending' \/ q \notin pending
  PROVE  Registry'
<1>1. /\ awaiting \subseteq listening /\ listening \subseteq Request
      /\ main \in [Run -> Stage] /\ aborted \in [Run -> BOOLEAN]
  BY DEF IInv, IType, MainType, ApprovalType, IdsAccounted
<1>2. \A q \in awaiting : q.run # r
  BY DEF OfRun
<1>3. /\ listening' = {q \in listening : q.run # r}
      /\ \A q \in clashed : q.run # r => q \in clashed'
      /\ \A k \in Run : aborted'[k] => aborted[k]
  BY <1>1 DEF Discard, OfRun
<1>4. \A q \in listening' : main'[q.run] = main[q.run]
  BY <1>1, <1>3 DEF Request
<1>5. awaiting' \subseteq listening'
  BY <1>1, <1>2, <1>3
<1>6. ApprovalsAccounted'
  <2>1. \A q \in pending' : ~aborted'[q.run]
    BY <1>1, <1>3 DEF IInv, ApprovalsAccounted, Request
  <2>2. \A q \in awaiting' : main'[q.run] = "running"
    BY <1>4, <1>5 DEF IInv, ApprovalsAccounted
  <2>3. \A q \in awaiting' : q \in pending' \/ q \in clashed' \/ q.id \in SharedIds
    BY <1>2, <1>3 DEF IInv, ApprovalsAccounted, Ambiguous
  <2> QED
    BY <2>1, <2>2, <2>3 DEF ApprovalsAccounted, Ambiguous
<1>7. RequestsMade'
  BY <1>3, <1>4 DEF IInv, RequestsMade
<1>8. IdsAccounted'
  BY <1>2, <1>3, <1>5 DEF IInv, IdsAccounted
<1> QED
  BY <1>6, <1>7, <1>8 DEF Registry

(* What a run's end leaves behind: no entry, and none of its own awaited.    *)
LEMMA EndKeeps ==
  ASSUME IInv, NEW r \in Run, NEW reason \in Reason, ToolsIdle(r), CleanUp, Discard(r),
         main' = [main EXCEPT ![r] = "ended"], terminal' = [terminal EXCEPT ![r] = reason],
         UNCHANGED <<view, frozen, asked>>
  PROVE  UnseenUncalled' /\ Registry' /\ TerminalIsLast' /\ FrozenPaused'
<1>1. main \in [Run -> Stage] /\ terminal \in [Run -> Reason \cup {"none"}] /\ frozen \in 0..MaxRuns
  BY DEF IInv, IType, MainType, FreezeType
<1>2. pending' = {} /\ awaiting' = awaiting \ pending
  BY DEF CleanUp
<1>3. terminal[r] = "none" /\ view[r] # "none"
  BY DEF ToolsIdle, IInv, TerminalIsLast, UnseenUncalled
<1>4. Registry'
  <2>1. OfRun(awaiting, r) = {}
    BY DEF ToolsIdle
  <2> QED
    BY <1>2, <2>1, DiscardKeeps
<1>5. UnseenUncalled' /\ TerminalIsLast'
  BY <1>1, <1>3 DEF IInv, UnseenUncalled, TerminalIsLast
<1>6. FrozenPaused'
  BY <1>1, <1>3, SessionRunsAssumption DEF IInv, FrozenPaused, Run
<1> QED
  BY <1>4, <1>5, <1>6

(* An abort leaves no entry of its run; and where a listener deletes the     *)
(* entry of an unambiguous request, that request is the listener's own.      *)
LEMMA AbortKeeps ==
  ASSUME IInv, NEW r \in Run, Abort(r), UNCHANGED <<main, listening, clashed, asked>>
  PROVE  Registry'
<1>0. CASE UNCHANGED <<aborted, pending, awaiting>>
  BY <1>0 DEF IInv, Registry, ApprovalsAccounted, Ambiguous, RequestsMade, IdsAccounted
<1>1. CASE ~UNCHANGED <<aborted, pending, awaiting>>
  <2> DEFINE fired == OfRun(listening, r)
  <2>0. PICK theirs \in SUBSET SharedIds : awaiting' = awaiting \ Deleting(fired, theirs)
    BY <1>1 DEF Abort
  <2>1. /\ aborted' = [aborted EXCEPT ![r] = TRUE]
        /\ pending' = {p \in pending : WithId(fired, p.id) = {}}
    BY <1>1 DEF Abort
  <2>2. /\ aborted \in [Run -> BOOLEAN] /\ listening \subseteq Request
        /\ pending \subseteq awaiting /\ awaiting \subseteq listening
    BY DEF IInv, IType, MainType, ApprovalType, ApprovalsAccounted, IdsAccounted
  <2>3. \A p \in pending' : p.run # r
    <3>1. ASSUME NEW p \in pending', p.run = r PROVE FALSE
      <4>1. p \in fired
        BY <2>1, <2>2, <3>1 DEF OfRun
      <4> QED
        BY <2>1, <4>1 DEF WithId
    <3> QED
      BY <3>1
  <2>4. pending' \subseteq awaiting'
    <3>1. ASSUME NEW p \in pending' PROVE p \in awaiting'
      <4>1. p \notin fired
        BY <2>1 DEF WithId
      <4> QED
        BY <2>0, <2>1, <2>2, <4>1 DEF Deleting
    <3> QED
      BY <3>1
  <2>5. \A p \in pending' : ~aborted'[p.run]
    BY <2>1, <2>2, <2>3 DEF IInv, ApprovalsAccounted, Request
  <2>6. ASSUME NEW q \in awaiting', q \notin clashed, q.id \notin SharedIds PROVE q \in pending'
    <3>1. q \in awaiting /\ q \in pending
      BY <2>0, <2>6 DEF IInv, ApprovalsAccounted, Ambiguous
    <3>2. \A f \in listening : f.id = q.id => f = q
      BY <2>6, <3>1 DEF IInv, IdsAccounted
    <3>3. ASSUME WithId(fired, q.id) # {} PROVE FALSE
      <4>1. WithId(fired, q.id) = {q} /\ q \in fired
        BY <3>2, <3>3 DEF WithId, OfRun
      <4>2. q.call <= q.call
        BY <2>2, <3>1, SessionRunsAssumption DEF Request
      <4>3. q \in Deleting(fired, theirs)
        BY <3>1, <4>1, <4>2 DEF Deleting
      <4> QED
        BY <2>0, <4>3
    <3> QED
      BY <2>1, <3>1, <3>3
  <2>7. awaiting' \subseteq awaiting
    BY <2>0
  <2>8. ApprovalsAccounted'
    BY <2>4, <2>5, <2>6, <2>7 DEF IInv, ApprovalsAccounted, Ambiguous
  <2>9. RequestsMade' /\ IdsAccounted'
    BY <2>2, <2>7 DEF IInv, RequestsMade, IdsAccounted
  <2> QED
    BY <2>8, <2>9 DEF Registry
<1> QED
  BY <1>0, <1>1

(* An answer takes what it hits out of both.                                 *)
LEMMA AnswerKeeps ==
  ASSUME IInv, NEW id, NEW answer, Answered(id, answer),
         UNCHANGED <<main, aborted, listening, clashed, asked>>
  PROVE  Registry'
<1>1. /\ pending' = pending \ WithId(pending, id) /\ awaiting' = awaiting \ WithId(pending, id)
  BY DEF Answered
<1>2. ApprovalsAccounted'
  BY <1>1 DEF IInv, ApprovalsAccounted, Ambiguous
<1>3. RequestsMade' /\ IdsAccounted'
  BY <1>1 DEF IInv, RequestsMade, IdsAccounted
<1> QED
  BY <1>2, <1>3 DEF Registry

(* One case per action, and under it what the action touches.                *)
LEMMA InvStep == IInv /\ [Next]_vars => IInv'
<1> SUFFICES ASSUME IInv, [Next]_vars
             PROVE  /\ ViewsInOrder' /\ UnseenUncalled'
                    /\ Registry'
                    /\ TerminalIsLast' /\ FrozenPaused'
  BY TypeStep DEF IInv, Registry
<1> DEFINE Kept == /\ ViewsInOrder' /\ UnseenUncalled'
                   /\ Registry'
                   /\ TerminalIsLast' /\ FrozenPaused'
<1>a. ASSUME UNCHANGED view PROVE ViewsInOrder'
  BY <1>a DEF IInv, ViewsInOrder
<1>b. ASSUME UNCHANGED <<view, main>> PROVE UnseenUncalled'
  BY <1>b DEF IInv, UnseenUncalled
<1>c. ASSUME UNCHANGED <<main, aborted, approvalVars>> PROVE Registry'
  BY <1>c, RegistryFrame
<1>d. ASSUME UNCHANGED <<main, terminal>> PROVE TerminalIsLast'
  BY <1>d DEF IInv, TerminalIsLast
<1>e. ASSUME frozen' = 0 \/ UNCHANGED frozen, UNCHANGED terminal PROVE FrozenPaused'
  BY <1>e DEF IInv, FrozenPaused
<1>1. CASE User \/ AutoResume
  <2>1. UNCHANGED <<view, mainVars>> /\ (frozen' = 0 \/ UNCHANGED frozen)
    BY <1>1 DEF User, ComposerSubmit, CardSend, StopSession, Respond, ResumeSession,
                AutoResume, TakeFreeze, sessionVars
  <2> QED
    BY <1>a, <1>b, <1>c, <1>d, <1>e, <2>1 DEF mainVars
<1>2. CASE WriteSettles
  <2>0. UNCHANGED <<terminal, aborted, approvalVars>>
    BY <1>2 DEF WriteSettles
  <2>1. CASE SendWritten
    <3>1. StartRun(0) /\ frozen' = 0
      BY <2>1 DEF SendWritten
    <3> QED
      BY <1>e, <2>0, <3>1, StartKeeps
  <2>2. CASE ResumeWritten
    <3>1. StartRun(Head(writes).of) /\ UNCHANGED frozen
      BY <2>2 DEF ResumeWritten
    <3> QED
      BY <1>e, <2>0, <3>1, StartKeeps
  <2>3. CASE StopWritten \/ WriteFails
    <3>1. UNCHANGED <<view, frozen, main>>
      BY <2>3 DEF StopWritten, WriteFails, sessionVars
    <3> QED
      BY <1>a, <1>b, <1>c, <1>d, <1>e, <2>0, <3>1
  <2> QED
    BY <1>2, <2>1, <2>2, <2>3 DEF WriteSettles
<1>3. CASE MainReceives
  <2>0. UNCHANGED <<view, frozen, main, terminal, listening, clashed, asked>>
    BY <1>3 DEF MainReceives, viewFrame
  <2>1. Registry'
    <3>1. CASE StopArrives
      <4>1. CASE controller # 0
        <5>1. controller \in Run /\ Abort(controller)
          BY <3>1, <4>1 DEF StopArrives, IInv, IType, MainType, Run
        <5> QED
          BY <2>0, <5>1, AbortKeeps
      <4>2. CASE controller = 0
        BY <2>0, <3>1, <4>2
        DEF StopArrives, IInv, Registry, ApprovalsAccounted, Ambiguous, RequestsMade, IdsAccounted
      <4> QED
        BY <4>1, <4>2
    <3>2. CASE AnswerArrives
      <4>1. Answered(Head(toMain).id, Head(toMain).op) /\ UNCHANGED aborted
        BY <3>2 DEF AnswerArrives
      <4> QED
        BY <2>0, <4>1, AnswerKeeps
    <3> QED
      BY <1>3, <3>1, <3>2 DEF MainReceives
  <2> QED
    BY <1>a, <1>b, <1>d, <1>e, <2>0, <2>1
<1>4. CASE ViewReceives
  <2>0. UNCHANGED <<source, mainVars>>
    BY <1>4 DEF ViewReceives
  <2>1. CASE AskArrives \/ DoneLost
    <3>1. UNCHANGED <<view, frozen>>
      BY <2>1 DEF AskArrives, DoneLost
    <3> QED
      BY <1>a, <1>b, <1>c, <1>d, <1>e, <2>0, <3>1 DEF mainVars
  <2>2. CASE DoneArrives
    <3>1. Head(toView) \in Sent
      <4>1. toView \in Seq(Sent) /\ toView # <<>>
        BY <1>4 DEF ViewReceives, IInv, IType, ViewType
      <4> QED
        BY <4>1, HeadTailProperties
    <3>2. Head(toView).run \in Run
      BY <2>2, <3>1 DEF DoneArrives, Sent
    <3>3. Fold(LiveViews, Head(toView).run)
      BY <2>2 DEF DoneArrives
    <3> QED
      BY <1>c, <1>d, <2>0, <3>2, <3>3, FoldKeeps DEF mainVars
  <2> QED
    BY <1>4, <2>1, <2>2 DEF ViewReceives
<1>5. ASSUME NEW r \in Run, RunStep(r) PROVE Kept
  <2>0. UNCHANGED <<view, frozen>>
    BY <1>5 DEF RunStep, Register, SetupThrows, Ask, AskFrame, LoopEnds, LoopThrows, viewFrame
  <2>1. CASE Register(r)
    <3>0. /\ main \in [Run -> Stage] /\ main[r] = "called" /\ main' = [main EXCEPT ![r] = "running"]
          /\ UNCHANGED <<terminal, aborted, approvalVars>>
          /\ listening \subseteq Request
      BY <2>1 DEF Register, IInv, IType, MainType, ApprovalType
    <3>1. UnseenUncalled' /\ TerminalIsLast'
      BY <2>0, <3>0 DEF IInv, UnseenUncalled, TerminalIsLast
    <3>2. \A q \in listening : main'[q.run] = main[q.run]
      BY <3>0 DEF IInv, RequestsMade, Request
    <3>3. Registry'
      BY <3>0, <3>2, RegistryFrame
    <3> QED
      BY <1>a, <1>e, <2>0, <3>0, <3>1, <3>3
  <2>2. CASE SetupThrows(r)
    <3>0. /\ main \in [Run -> Stage] /\ main' = [main EXCEPT ![r] = "ended"]
          /\ main[r] = "called" \/ (main[r] = "running" /\ asked[r] = 0)
          /\ terminal \in [Run -> Reason \cup {"none"}] /\ terminal' = [terminal EXCEPT ![r] = "threw"]
          /\ Discard(r) /\ UNCHANGED <<pending, awaiting, asked>>
          /\ listening \subseteq Request /\ awaiting \subseteq listening /\ pending \subseteq awaiting
      BY <2>2 DEF SetupThrows, IInv, IType, MainType, ApprovalType, ApprovalsAccounted, IdsAccounted
    <3>1. terminal[r] = "none" /\ view[r] # "none"
      BY <3>0 DEF IInv, TerminalIsLast, UnseenUncalled
    <3>2. UnseenUncalled' /\ TerminalIsLast'
      BY <2>0, <3>0, <3>1 DEF IInv, UnseenUncalled, TerminalIsLast
    <3>3. OfRun(awaiting, r) = {}
      <4>1. \A q \in awaiting : main[q.run] = "running" /\ q.call <= asked[q.run]
        BY <3>0 DEF IInv, RequestsMade
      <4>2. \A q \in awaiting : q.call \in Nat /\ ~(q.call <= 0)
        BY <3>0, SessionRunsAssumption DEF Request
      <4>3. ASSUME NEW q \in awaiting, q.run = r PROVE FALSE
        <5>1. asked[r] = 0
          BY <3>0, <4>1, <4>3
        <5> QED
          BY <4>1, <4>2, <4>3, <5>1
      <4> QED
        BY <4>3 DEF OfRun
    <3>4. Registry'
      BY <3>0, <3>3, DiscardKeeps
    <3>5. FrozenPaused'
      BY <2>0, <3>0, <3>1, SessionRunsAssumption
      DEF IInv, IType, FreezeType, FrozenPaused, Run
    <3> QED
      BY <1>a, <2>0, <3>2, <3>4, <3>5
  <2>3. CASE Ask(r)
    BY <1>a, <1>b, <1>d, <1>e, <2>0, <2>3, AskKeeps DEF Ask, AskFrame
  <2>4. ASSUME NEW reason \in {"settled", "paused"}, LoopEnds(r, reason) PROVE Kept
    <3>1. /\ ToolsIdle(r) /\ CleanUp /\ Discard(r) /\ main' = [main EXCEPT ![r] = "ended"]
          /\ terminal' = [terminal EXCEPT ![r] = reason] /\ reason \in Reason /\ UNCHANGED asked
      BY <2>4 DEF LoopEnds, Return, Reason
    <3> QED
      BY <1>a, <2>0, <3>1, EndKeeps
  <2>5. CASE LoopThrows(r)
    <3>1. /\ ToolsIdle(r) /\ CleanUp /\ Discard(r) /\ main' = [main EXCEPT ![r] = "ended"]
          /\ terminal' = [terminal EXCEPT ![r] = "threw"] /\ "threw" \in Reason /\ UNCHANGED asked
      BY <2>5 DEF LoopThrows, Reason
    <3> QED
      BY <1>a, <2>0, <3>1, EndKeeps
  <2> QED
    BY <1>5, <2>1, <2>2, <2>3, <2>4, <2>5 DEF RunStep
<1>6. ASSUME NEW r \in Run, QuotaStop(r) PROVE Kept
  <2>1. Abort(r) /\ UNCHANGED <<view, frozen, main, terminal, listening, clashed, asked>>
    BY <1>6 DEF QuotaStop, viewFrame
  <2> QED
    BY <1>a, <1>b, <1>d, <1>e, <2>1, AbortKeeps
<1>7. ASSUME NEW r \in Run, ProviderStep(r) PROVE Kept
  <2>1. Fold({r}, r) /\ UNCHANGED mainVars
    BY <1>7 DEF ProviderStep, PromiseRejects, Fallback
  <2> QED
    BY <1>c, <1>d, <2>1, FoldKeeps DEF mainVars
<1>8. ASSUME NEW id \in SharedIds, OtherSession(id) PROVE Kept
  <2>0. UNCHANGED <<view, frozen, main, terminal, aborted, listening, clashed, asked>>
    BY <1>8 DEF OtherSession, viewFrame
  <2>1. CASE \E answer \in Answer : Answered(id, answer)
    BY <1>a, <1>b, <1>d, <1>e, <2>0, <2>1, AnswerKeeps
  <2>2. CASE pending' = pending \ WithId(pending, id) /\ UNCHANGED awaiting
    <3>1. ApprovalsAccounted'
      BY <2>0, <2>2 DEF IInv, ApprovalsAccounted, Ambiguous, WithId
    <3>2. RequestsMade' /\ IdsAccounted'
      BY <2>0, <2>2 DEF IInv, RequestsMade, IdsAccounted
    <3> QED
      BY <1>a, <1>b, <1>d, <1>e, <2>0, <3>1, <3>2 DEF Registry
  <2> QED
    BY <1>8, <2>1, <2>2 DEF OtherSession
<1>9. CASE UNCHANGED vars
  BY <1>a, <1>b, <1>c, <1>d, <1>e, <1>9 DEF vars, sessionVars, mainVars
<1> QED
  BY <1>1, <1>2, <1>3, <1>4, <1>5, <1>6, <1>7, <1>8, <1>9 DEF Next, User, Progress

(* A timer is armed only together with a freeze, and dropped with it.        *)
LEMMA FoldArms ==
  ASSUME IType, ArmedForFreeze, NEW rs, NEW q \in Run, Fold(rs, q)
  PROVE  ArmedForFreeze'
<1>1. \/ frozen' # 0
      \/ timer' = timer /\ frozen' = frozen
  BY DEF Fold, Run
<1> QED
  BY Zenon, <1>1 DEF ArmedForFreeze

(* No action arms the timer alone.                                           *)
LEMMA ArmedStep == IType /\ ArmedForFreeze /\ [Next]_vars => ArmedForFreeze'
<1> SUFFICES ASSUME IType, ArmedForFreeze, [Next]_vars PROVE ArmedForFreeze'
  OBVIOUS
<1>a. ASSUME UNCHANGED <<timer, frozen>> PROVE ArmedForFreeze'
  BY Zenon, <1>a DEF ArmedForFreeze
<1>b. ASSUME timer' = FALSE PROVE ArmedForFreeze'
  BY Zenon, <1>b DEF ArmedForFreeze
<1>1. CASE User \/ AutoResume
  <2>1. timer' = FALSE \/ UNCHANGED <<timer, frozen>>
    BY <1>1 DEF User, ComposerSubmit, CardSend, StopSession, Respond, ResumeSession,
                AutoResume, TakeFreeze, sessionVars
  <2> QED
    BY <1>a, <1>b, <2>1
<1>2. CASE WriteSettles
  <2>1. timer' = FALSE \/ UNCHANGED <<timer, frozen>>
    BY <1>2
    DEF WriteSettles, SendWritten, ResumeWritten, StopWritten, WriteFails,
        sessionVars
  <2> QED
    BY <1>a, <1>b, <2>1
<1>3. CASE MainReceives
  BY <1>a, <1>3 DEF MainReceives, viewFrame
<1>4. CASE ViewReceives
  <2>1. CASE AskArrives \/ DoneLost
    BY <1>a, <2>1 DEF AskArrives, DoneLost
  <2>2. CASE DoneArrives
    <3>1. Head(toView) \in Sent
      <4>1. toView \in Seq(Sent) /\ toView # <<>>
        BY <1>4 DEF ViewReceives, IType, ViewType
      <4> QED
        BY <4>1, HeadTailProperties
    <3>2. Head(toView).run \in Run /\ Fold(LiveViews, Head(toView).run)
      BY <2>2, <3>1 DEF DoneArrives, Sent
    <3> QED
      BY <3>2, FoldArms
  <2> QED
    BY <1>4, <2>1, <2>2 DEF ViewReceives
<1>5. ASSUME NEW r \in Run, RunStep(r) \/ QuotaStop(r) PROVE ArmedForFreeze'
  <2>1. UNCHANGED <<timer, frozen>>
    BY <1>5
    DEF RunStep, Register, SetupThrows, Ask, AskFrame, LoopEnds, LoopThrows, QuotaStop,
        viewFrame
  <2> QED
    BY <1>a, <2>1
<1>6. ASSUME NEW r \in Run, ProviderStep(r) PROVE ArmedForFreeze'
  <2>1. Fold({r}, r)
    BY <1>6 DEF ProviderStep, PromiseRejects, Fallback
  <2> QED
    BY <2>1, FoldArms
<1>7. ASSUME NEW id \in SharedIds, OtherSession(id) PROVE ArmedForFreeze'
  BY <1>a, <1>7 DEF OtherSession, viewFrame
<1>8. CASE UNCHANGED vars
  BY <1>a, <1>8 DEF vars, sessionVars
<1> QED
  BY <1>1, <1>2, <1>3, <1>4, <1>5, <1>6, <1>7, <1>8 DEF Next, User, Progress

(* The inductive invariant holds throughout.                                 *)
THEOREM Invariant == Spec => [](IInv /\ ArmedForFreeze)
<1>1. IInv /\ ArmedForFreeze /\ [Next]_vars => (IInv /\ ArmedForFreeze)'
  BY InvStep, ArmedStep DEF IInv
<1> QED
  BY <1>1, InvInit, PTL DEF Spec

-----------------------------------------------------------------------------
(* No call waits for an answer that cannot come, unless its id was used      *)
(* twice: whichever runs of the session overlap, however often they ask, and *)
(* whatever ids their calls have.                                            *)
THEOREM ApprovalsCorrect == Spec => []ApprovalsAccounted
<1>1. IInv => ApprovalsAccounted
  BY DEF IInv
<1> QED
  BY <1>1, Invariant, PTL

(* The auto-resume timer is only ever armed for a run that paused and is     *)
(* still frozen.                                                             *)
THEOREM TimerCorrect == Spec => []TimerGuardsFreeze
<1>1. FrozenPaused /\ ArmedForFreeze => TimerGuardsFreeze
  BY Zenon DEF FrozenPaused, ArmedForFreeze, TimerGuardsFreeze
<1>2. IInv => FrozenPaused
  BY DEF IInv
<1> QED
  BY <1>1, <1>2, Invariant, PTL

(* Once a run is aborted no call of it is approved: an answer finds only     *)
(* requests the gate still awaits, and the allowlist is read after the       *)
(* signal.                                                                   *)
THEOREM NoLateGrant == Spec => NoGrantAfterStop
<1> DEFINE Grants == \A q \in granted' \ granted : ~aborted[q.run]
<1>1. IInv /\ [Next]_vars => [Grants]_vars
  <2> SUFFICES ASSUME IInv, Next PROVE Grants
    OBVIOUS
  <2>a. ASSUME UNCHANGED granted PROVE Grants
    BY <2>a
  <2>1. CASE MainReceives \/ \E id \in SharedIds : OtherSession(id)
    <3>1. \A q \in pending : ~aborted[q.run]
      BY DEF IInv, ApprovalsAccounted
    <3>2. granted' \subseteq granted \cup pending
      <4>1. CASE \E id \in SharedIds : OtherSession(id)
        BY <4>1, AnswerShape DEF OtherSession
      <4>2. CASE MainReceives
        BY <4>2, AnswerShape DEF MainReceives, StopArrives, AnswerArrives
      <4> QED
        BY <2>1, <4>1, <4>2
    <3> QED
      BY <3>1, <3>2
  <2>2. ASSUME NEW r \in Run, Ask(r) PROVE Grants
    <3>1. \/ UNCHANGED granted
          \/ /\ ~aborted[r]
             /\ \E id : granted' = granted \cup {[run |-> r, call |-> asked[r] + 1, id |-> id]}
      BY <2>2 DEF Ask, PutToUser
    <3> QED
      BY <3>1
  <2>3. CASE User \/ AutoResume \/ WriteSettles \/ ViewReceives
    <3>1. UNCHANGED granted
      BY <2>3
      DEF User, ComposerSubmit, CardSend, StopSession, Respond, ResumeSession,
          AutoResume, WriteSettles, ViewReceives, mainVars, approvalVars
    <3> QED
      BY <2>a, <3>1
  <2>4. ASSUME NEW r \in Run, RunStep(r) \/ QuotaStop(r) \/ ProviderStep(r), ~Ask(r) PROVE Grants
    <3>1. granted' \subseteq granted
      BY <2>4
      DEF RunStep, Register, SetupThrows, LoopEnds, Return, LoopThrows, Discard, QuotaStop,
          ProviderStep, PromiseRejects, Fallback, mainVars, approvalVars
    <3> QED
      BY <3>1
  <2> QED
    BY <2>1, <2>2, <2>3, <2>4 DEF Next, RunStep, Progress
<1> QED
  BY <1>1, Invariant, PTL DEF Spec, NoGrantAfterStop

-----------------------------------------------------------------------------
(* A frozen run k is a token: it is session.pausedTranscript, a resume in    *)
(* the write queue, or the transcript some run was started from - and only   *)
(* one of these.                                                             *)
Resumes(w, k) == w.op = "resume" /\ w.of = k

OneResume(k) ==
  /\ \A r1, r2 \in Run : source[r1] = k /\ source[r2] = k => r1 = r2
  /\ \A i, j \in DOMAIN writes : Resumes(writes[i], k) /\ Resumes(writes[j], k) => i = j
  /\ \A r \in Run, j \in DOMAIN writes : ~(source[r] = k /\ Resumes(writes[j], k))
  /\ frozen = k => /\ \A r \in Run : source[r] # k
                   /\ \A j \in DOMAIN writes : ~Resumes(writes[j], k)

Taken(k) ==
  \/ frozen = k
  \/ \E r \in Run : source[r] = k
  \/ \E j \in DOMAIN writes : Resumes(writes[j], k)

IsDone(m, k) == m.op = "done" /\ m.run = k

(* Before k is a token its terminal can still freeze it; after, it cannot.   *)
Spent(k) ==
  Taken(k) => /\ terminal[k] # "none" /\ view[k] = "final"
              /\ \A i \in DOMAIN toView : ~IsDone(toView[i], k)

DoneOnce(k) ==
  /\ \A i \in DOMAIN toView : IsDone(toView[i], k) => terminal[k] # "none"
  /\ \A i, j \in DOMAIN toView : IsDone(toView[i], k) /\ IsDone(toView[j], k) => i = j

Token(k) == OneResume(k) /\ Spent(k) /\ DoneOnce(k)

TokensSound == \A k \in Run : Token(k)

(* Facts on queues: an entry behind the head keeps its place, an appended    *)
(* entry comes last.                                                         *)
LEMMA TailShifts ==
  ASSUME NEW S, NEW s \in Seq(S), s # <<>>
  PROVE  /\ \A j \in DOMAIN Tail(s) : j + 1 \in DOMAIN s /\ Tail(s)[j] = s[j + 1]
         /\ Head(s) = s[1] /\ 1 \in DOMAIN s
<1>1. Tail(s) \in Seq(S) /\ Len(Tail(s)) = Len(s) - 1 /\ \A j \in 1..Len(Tail(s)) : Tail(s)[j] = s[j + 1]
  BY HeadTailProperties
<1>2. DOMAIN s = 1..Len(s) /\ DOMAIN Tail(s) = 1..Len(Tail(s)) /\ Len(s) \in Nat /\ Len(s) # 0
  BY <1>1, LenProperties, EmptySeq
<1>3. \A j \in 1..Len(Tail(s)) : j + 1 \in 1..Len(s)
  BY <1>1, <1>2
<1> QED
  BY <1>1, <1>2, <1>3

LEMMA AppendLast ==
  ASSUME NEW S, NEW s \in Seq(S), NEW x \in S, NEW j \in DOMAIN Append(s, x)
  PROVE  \/ j \in DOMAIN s /\ Append(s, x)[j] = s[j]
         \/ j = Len(s) + 1 /\ Append(s, x)[j] = x
<1>1. /\ DOMAIN s = 1..Len(s) /\ Len(s) \in Nat
      /\ Append(s, x) \in Seq(S) /\ DOMAIN Append(s, x) = 1..(Len(s) + 1)
      /\ \A i \in 1..Len(s) : Append(s, x)[i] = s[i]
      /\ Append(s, x)[Len(s) + 1] = x
  BY AppendProperties, LenProperties
<1> QED
  BY <1>1

(* An entry that is no resume adds no token to the queue.                    *)
LEMMA PlainAppend ==
  ASSUME NEW k \in Run, NEW ws \in Seq(Write), NEW w \in Write, w.op # "resume",
         NEW j \in DOMAIN Append(ws, w), Resumes(Append(ws, w)[j], k)
  PROVE  j \in DOMAIN ws /\ Resumes(ws[j], k)
BY AppendLast DEF Resumes

LEMMA NeedsInputPlain ==
  ASSUME NEW k \in Run, NEW ws \in Seq(Write), NeedsInput(ws),
         NEW j \in DOMAIN writes', Resumes(writes'[j], k)
  PROVE  j \in DOMAIN ws /\ Resumes(ws[j], k)
<1>1. ComposerSend \in Write /\ ComposerSend.op # "resume"
  BY WritesTyped DEF ComposerSend
<1>2. writes' = Append(ws, ComposerSend) \/ writes' = ws
  BY DEF NeedsInput
<1> QED
  BY <1>1, <1>2, PlainAppend

(* A step that adds no token of k keeps it single ...                        *)
LEMMA FewerTokens ==
  ASSUME NEW k \in Run, writes \in Seq(Write), writes' \in Seq(Write), OneResume(k),
         frozen' = k => frozen = k,
         \A r \in Run : source'[r] = k => source[r] = k,
         NEW d \in {0, 1},
         \A j \in DOMAIN writes' : Resumes(writes'[j], k)
             => j + d \in DOMAIN writes /\ Resumes(writes[j + d], k)
  PROVE  OneResume(k)' /\ (Taken(k)' => Taken(k))
<1>1. \A j \in DOMAIN writes' : j \in Nat
  BY LenProperties
<1>2. \A i, j \in DOMAIN writes' : i + d = j + d => i = j
  BY <1>1
<1>3. OneResume(k)'
  BY <1>2 DEF OneResume, Resumes
<1>4. Taken(k)' => Taken(k)
  BY DEF Taken, Resumes
<1> QED
  BY <1>3, <1>4

(* ... and one that reports no terminal of k keeps it spent.                 *)
LEMMA DoneKept ==
  ASSUME NEW k \in Run, toView' \in Seq(Sent), DoneOnce(k),
         terminal[k] # "none" => terminal'[k] = terminal[k],
         NEW e \in {0, 1},
         \A i \in DOMAIN toView' : IsDone(toView'[i], k)
             => i + e \in DOMAIN toView /\ IsDone(toView[i + e], k)
  PROVE  DoneOnce(k)'
<1>1. \A j \in DOMAIN toView' : j \in Nat
  BY LenProperties
<1>2. \A i, j \in DOMAIN toView' : i + e = j + e => i = j
  BY <1>1
<1> QED
  BY <1>2 DEF DoneOnce, IsDone

LEMMA SpentKept ==
  ASSUME NEW k \in Run, Spent(k), Taken(k)' => Taken(k),
         terminal[k] # "none" => terminal'[k] = terminal[k],
         view[k] = "final" => view'[k] = "final",
         NEW e \in {0, 1},
         \A i \in DOMAIN toView' : IsDone(toView'[i], k)
             => i + e \in DOMAIN toView /\ IsDone(toView[i + e], k)
  PROVE  Spent(k)'
BY DEF Spent, IsDone

(* No terminal changes, and no folded view comes back.                       *)
LEMMA FinalStays ==
  ASSUME IInv, [Next]_vars, NEW k \in Run
  PROVE  /\ terminal[k] # "none" => terminal'[k] = terminal[k]
         /\ view[k] = "final" => view'[k] = "final"
<1> DEFINE Stays == /\ terminal[k] # "none" => terminal'[k] = terminal[k]
                    /\ view[k] = "final" => view'[k] = "final"
<1>a. ASSUME UNCHANGED <<terminal, view>> PROVE Stays
  BY <1>a
<1>b. ASSUME NEW rs, NEW q, Fold(rs, q), UNCHANGED terminal PROVE Stays
  BY <1>b DEF Fold, LiveViews
<1>1. CASE User \/ AutoResume \/ MainReceives
  <2>1. UNCHANGED <<terminal, view>>
    BY <1>1 DEF User, ComposerSubmit, CardSend, StopSession, Respond, ResumeSession,
                AutoResume, TakeFreeze, MainReceives, sessionVars, mainVars, viewFrame
  <2> QED
    BY <1>a, <2>1
<1>2. CASE WriteSettles
  <2>0. UNCHANGED terminal
    BY <1>2 DEF WriteSettles
  <2>1. ASSUME NEW of, StartRun(of) PROVE Stays
    <3> DEFINE r == Cardinality({q \in Run : view[q] # "none"}) + 1
    <3>1. view' = [view EXCEPT ![r] = "live"]
      BY <2>1 DEF StartRun
    <3>2. r \in Run => view[r] = "none"
      BY NextRunIsNew
    <3> HIDE DEF r
    <3> QED
      BY <2>0, <3>1, <3>2 DEF IInv, IType, FreezeType
  <2>2. CASE StopWritten \/ WriteFails
    BY <1>a, <2>0, <2>2 DEF StopWritten, WriteFails, sessionVars
  <2> QED
    BY <1>2, <2>1, <2>2 DEF WriteSettles, SendWritten, ResumeWritten
<1>3. CASE ViewReceives
  <2>0. UNCHANGED terminal
    BY <1>3 DEF ViewReceives, mainVars
  <2> QED
    BY <1>3, <1>a, <1>b, <2>0 DEF ViewReceives, AskArrives, DoneArrives, DoneLost
<1>4. ASSUME NEW r \in Run, RunStep(r) PROVE Stays
  <2>0. UNCHANGED view
    BY <1>4 DEF RunStep, Register, SetupThrows, Ask, AskFrame, LoopEnds, LoopThrows, viewFrame
  <2>1. \/ UNCHANGED terminal
        \/ main[r] \in {"called", "running"} /\ \E t : terminal' = [terminal EXCEPT ![r] = t]
    BY <1>4
    DEF RunStep, Register, SetupThrows, Ask, AskFrame, LoopEnds, LoopThrows, ToolsIdle, Return
  <2>2. main[r] \in {"called", "running"} => terminal[r] = "none"
    BY DEF IInv, TerminalIsLast
  <2> QED
    BY <2>0, <2>1, <2>2 DEF IInv, IType, MainType
<1>5. ASSUME NEW r \in Run, QuotaStop(r) PROVE Stays
  BY <1>a, <1>5 DEF QuotaStop, viewFrame
<1>6. ASSUME NEW r \in Run, ProviderStep(r) PROVE Stays
  <2>1. Fold({r}, r) /\ UNCHANGED terminal
    BY <1>6 DEF ProviderStep, PromiseRejects, Fallback, mainVars
  <2> QED
    BY <1>b, <2>1
<1>7. ASSUME NEW id \in SharedIds, OtherSession(id) PROVE Stays
  BY <1>a, <1>7 DEF OtherSession, viewFrame
<1>8. CASE UNCHANGED vars
  BY <1>a, <1>8 DEF vars, sessionVars, mainVars
<1> QED
  BY <1>1, <1>2, <1>3, <1>4, <1>5, <1>6, <1>7, <1>8 DEF Next, Progress

(* The one place tokens come from: the fold with k's own terminal.           *)
LEMMA FoldToken ==
  ASSUME IInv, IType', NEW k \in Run, Token(k), NEW rs, NEW q \in Run, Fold(rs, q),
         UNCHANGED source,
         terminal[k] # "none" => terminal'[k] = terminal[k],
         view[k] = "final" => view'[k] = "final",
         NEW e \in {0, 1},
         \A i \in DOMAIN toView' : IsDone(toView'[i], k)
             => i + e \in DOMAIN toView /\ IsDone(toView[i + e], k),
         k = q => ~Taken(k),
         k = q /\ rs \cap LiveViews # {} =>
             view'[k] = "final" /\ \A i \in DOMAIN toView' : ~IsDone(toView'[i], k)
  PROVE  Token(k)'
<1>0. writes \in Seq(Write) /\ writes' \in Seq(Write) /\ toView' \in Seq(Sent)
  BY DEF IInv, IType, QueueType, ViewType
<1>1. DoneOnce(k)'
  BY <1>0, DoneKept DEF Token
<1>2. \A j \in DOMAIN writes' : Resumes(writes'[j], k)
          => j \in DOMAIN writes /\ Resumes(writes[j], k)
  <2>1. writes' = writes \/ NeedsInput(writes)
    BY DEF Fold
  <2> QED
    BY <1>0, <2>1, NeedsInputPlain
<1>3. CASE frozen' = k => frozen = k
  <2>1. \A j \in DOMAIN writes' : j \in Nat
    BY <1>0, LenProperties
  <2>2. \A j \in DOMAIN writes' : Resumes(writes'[j], k)
            => j + 0 \in DOMAIN writes /\ Resumes(writes[j + 0], k)
    BY <1>2, <2>1
  <2>3. OneResume(k)' /\ (Taken(k)' => Taken(k))
    BY <1>0, <1>3, <2>2, FewerTokens DEF Token
  <2>4. Spent(k)'
    BY <2>3, SpentKept DEF Token
  <2> QED
    BY <1>1, <2>3, <2>4 DEF Token
<1>4. CASE frozen' = k /\ frozen # k
  <2>1. k = q /\ terminal[k] = "paused" /\ rs \cap LiveViews # {}
    BY <1>4 DEF Fold
  <2>2. /\ \A r \in Run : source'[r] # k
        /\ \A j \in DOMAIN writes' : ~Resumes(writes'[j], k)
    BY <1>2, <2>1 DEF Taken
  <2>3. OneResume(k)'
    BY <2>2 DEF OneResume, Resumes
  <2>4. Spent(k)'
    BY <2>1 DEF Spent, IsDone
  <2> QED
    BY <1>1, <2>3, <2>4 DEF Token
<1> QED
  BY <1>3, <1>4

(* Taking the freeze moves the token into the queue.                         *)
LEMMA TakeToken ==
  ASSUME IInv, IType', NEW k \in Run, Token(k), TakeFreeze, frozen # 0,
         UNCHANGED <<source, terminal, view, toView>>
  PROVE  Token(k)'
<1> DEFINE w == [op |-> "resume", of |-> frozen]
<1>0. writes \in Seq(Write) /\ w \in Write /\ writes' = Append(writes, w) /\ frozen' = 0
  BY WritesTyped DEF IInv, IType, QueueType, FreezeType, TakeFreeze, Run
<1>1. \A j \in DOMAIN writes' :
        \/ j \in DOMAIN writes /\ writes'[j] = writes[j]
        \/ j = Len(writes) + 1 /\ writes'[j] = w
  BY <1>0, AppendLast
<1>2. frozen' # k
  BY <1>0, SessionRunsAssumption DEF Run
<1>3. CASE frozen = k
  <2>1. \A j \in DOMAIN writes' : Resumes(writes'[j], k) => j = Len(writes) + 1
    BY <1>1, <1>3 DEF Token, OneResume
  <2>2. OneResume(k)'
    BY <1>2, <1>3, <2>1 DEF Token, OneResume, Resumes
  <2>3. Taken(k)
    BY <1>3 DEF Taken
  <2> QED
    BY <2>2, <2>3 DEF Token, Spent, DoneOnce, IsDone
<1>4. CASE frozen # k
  <2>1. \A j \in DOMAIN writes' : Resumes(writes'[j], k) => j \in DOMAIN writes /\ Resumes(writes[j], k)
    BY <1>1, <1>4 DEF Resumes
  <2>2. OneResume(k)' /\ (Taken(k)' => Taken(k))
    <3>1. \A i, j \in DOMAIN writes' : Resumes(writes'[i], k) /\ Resumes(writes'[j], k) => i = j
      BY <2>1 DEF Token, OneResume
    <3>2. \A r \in Run, j \in DOMAIN writes' : ~(source[r] = k /\ Resumes(writes'[j], k))
      BY <2>1 DEF Token, OneResume
    <3>3. OneResume(k)'
      BY <1>2, <3>1, <3>2 DEF Token, OneResume, Resumes
    <3>4. Taken(k)' => Taken(k)
      BY <1>2, <2>1 DEF Taken, Resumes
    <3> QED
      BY <3>3, <3>4
  <2> QED
    BY <2>2 DEF Token, Spent, DoneOnce, IsDone
<1> QED
  BY <1>3, <1>4

(* A resumed run takes its token out of the queue.                           *)
LEMMA ResumeToken ==
  ASSUME IInv, NEW k \in Run, Token(k), writes # <<>>, ResumeWritten,
         UNCHANGED <<terminal, toView>>, view[k] = "final" => view'[k] = "final"
  PROVE  Token(k)'
<1> DEFINE r == Cardinality({q \in Run : view[q] # "none"}) + 1
           of == Head(writes).of
<1>0. writes \in Seq(Write) /\ source \in [Run -> 0..MaxRuns]
  BY DEF IInv, IType, QueueType, FreezeType
<1>1. /\ \A j \in DOMAIN Tail(writes) : j + 1 \in DOMAIN writes /\ Tail(writes)[j] = writes[j + 1]
      /\ Head(writes) = writes[1] /\ 1 \in DOMAIN writes
  BY <1>0, TailShifts
<1>2. /\ writes' = Tail(writes) /\ frozen' = frozen /\ source' = [source EXCEPT ![r] = of]
      /\ writes[1].op = "resume" /\ writes[1].of = of
  BY <1>1 DEF ResumeWritten, StartRun
<1> HIDE DEF r, of
<1>3. \A q \in Run : source'[q] = IF q = r THEN of ELSE source[q]
  BY <1>0, <1>2
<1>4. \A j \in DOMAIN writes' : j \in Nat \ {0} /\ j + 1 \in DOMAIN writes /\ writes'[j] = writes[j + 1]
  <2>1. Tail(writes) \in Seq(Write)
    BY <1>0, <1>1, HeadTailProperties
  <2> QED
    BY <1>1, <1>2, <2>1, LenProperties
<1>5. CASE of = k
  <2>1. Resumes(writes[1], k)
    BY <1>2, <1>5 DEF Resumes
  <2>2. \A j \in DOMAIN writes' : ~Resumes(writes'[j], k)
    <3>1. \A j \in Nat \ {0} : j + 1 # 1
      OBVIOUS
    <3> QED
      BY <1>1, <1>4, <2>1, <3>1 DEF Token, OneResume
  <2>3. \A q \in Run : source[q] # k
    BY <1>1, <2>1 DEF Token, OneResume
  <2>4. frozen' # k
    BY <1>1, <1>2, <2>1 DEF Token, OneResume
  <2>5. OneResume(k)'
    BY <1>3, <2>2, <2>3, <2>4 DEF OneResume, Resumes
  <2>6. Taken(k)
    BY <1>1, <2>1 DEF Taken
  <2> QED
    BY <2>5, <2>6 DEF Token, Spent, DoneOnce, IsDone
<1>6. CASE of # k
  <2>1. \A q \in Run : source'[q] = k => source[q] = k
    BY <1>3, <1>6
  <2>2. \A i, j \in DOMAIN writes' : i + 1 = j + 1 => i = j
    BY <1>4
  <2>3. OneResume(k)'
    BY <1>2, <1>4, <2>1, <2>2 DEF Token, OneResume, Resumes
  <2>4. Taken(k)' => Taken(k)
    BY <1>2, <1>4, <2>1 DEF Taken, Resumes
  <2> QED
    BY <2>3, <2>4 DEF Token, Spent, DoneOnce, IsDone
<1> QED
  BY <1>5, <1>6

(* A terminal is reported by a run that had none, so it is the first.        *)
LEMMA ReturnToken ==
  ASSUME IInv, NEW k \in Run, Token(k), NEW r \in Run, NEW reason \in Reason, main[r] = "running",
         Return(r, reason), UNCHANGED <<writes, frozen, source, view>>
  PROVE  Token(k)'
<1> DEFINE m == [op |-> "done", run |-> r]
<1>0. toView \in Seq(Sent) /\ m \in Sent /\ toView' = Append(toView, m)
  BY DEF IInv, IType, ViewType, Sent, Return
<1>1. \A i \in DOMAIN toView' :
        \/ i \in DOMAIN toView /\ toView'[i] = toView[i]
        \/ i = Len(toView) + 1 /\ toView'[i] = m
  BY <1>0, AppendLast
<1>2. terminal[r] = "none" /\ terminal' = [terminal EXCEPT ![r] = reason]
  BY DEF IInv, TerminalIsLast, Return
<1>3. terminal \in [Run -> Reason \cup {"none"}]
  BY DEF IInv, IType, MainType
<1>4. (OneResume(k)' <=> OneResume(k)) /\ (Taken(k)' <=> Taken(k))
  BY DEF OneResume, Taken, Resumes
<1>5. CASE r = k
  <2>1. ~Taken(k) /\ \A i \in DOMAIN toView : ~IsDone(toView[i], k)
    BY <1>2, <1>5 DEF Token, Spent, DoneOnce
  <2>2. \A i \in DOMAIN toView' : IsDone(toView'[i], k) => i = Len(toView) + 1
    BY <1>1, <2>1
  <2>3. terminal'[k] # "none"
    BY <1>2, <1>3, <1>5 DEF Reason
  <2> QED
    BY <1>4, <2>1, <2>2, <2>3 DEF Token, Spent, DoneOnce, IsDone
<1>6. CASE r # k
  <2>1. \A i \in DOMAIN toView' : IsDone(toView'[i], k) => i \in DOMAIN toView /\ IsDone(toView[i], k)
    BY <1>1, <1>6 DEF IsDone
  <2>2. terminal'[k] = terminal[k]
    BY <1>2, <1>3, <1>6
  <2> QED
    BY <1>4, <2>1, <2>2 DEF Token, Spent, DoneOnce, IsDone
<1> QED
  BY <1>5, <1>6

(* A question is no terminal.                                                *)
LEMMA AskToken ==
  ASSUME IInv, IType', NEW k \in Run, Token(k), NEW r \in Run, Ask(r)
  PROVE  Token(k)'
<1>0. toView \in Seq(Sent) /\ asked[r] + 1 \in 1..MaxAsks
  BY SessionRunsAssumption DEF IInv, IType, ViewType, ApprovalType, Ask
<1>1. PICK q \in Request : toView' = toView \/ toView' = Append(toView, [op |-> "ask", request |-> q])
  <2>1. PICK id \in CallIds :
          \/ toView' = toView
          \/ toView' = Append(toView, [op |-> "ask",
                                       request |-> [run |-> r, call |-> asked[r] + 1, id |-> id]])
    BY DEF Ask, NotPut, PutToUser
  <2> QED
    BY <1>0, <2>1 DEF Request
<1>2. [op |-> "ask", request |-> q] \in Sent
  BY DEF Sent
<1>3. \A i \in DOMAIN toView' : IsDone(toView'[i], k) => i \in DOMAIN toView /\ IsDone(toView[i], k)
  BY <1>0, <1>1, <1>2, AppendLast DEF IsDone
<1>4. UNCHANGED <<writes, frozen, source, view, terminal>>
  BY DEF Ask, AskFrame, viewFrame
<1> QED
  BY <1>3, <1>4 DEF Token, OneResume, Spent, Taken, DoneOnce, Resumes, IsDone

(* Whoever writes, stops or fails to: the queue loses its head or gains a    *)
(* send.                                                                     *)
LEMMA PlainToken ==
  ASSUME NEW k \in Run, IInv, IType', Token(k), NEW d \in {0, 1},
         frozen' = k => frozen = k,
         \A r \in Run : source'[r] = k => source[r] = k,
         \A j \in DOMAIN writes' : Resumes(writes'[j], k)
             => j + d \in DOMAIN writes /\ Resumes(writes[j + d], k),
         UNCHANGED <<terminal, toView>>, view[k] = "final" => view'[k] = "final"
  PROVE  Token(k)'
<1>1. writes \in Seq(Write) /\ writes' \in Seq(Write)
  BY DEF IInv, IType, QueueType
<1>2. OneResume(k)' /\ (Taken(k)' => Taken(k))
  BY <1>1, FewerTokens DEF Token
<1> QED
  BY <1>2 DEF Token, Spent, DoneOnce, IsDone

(* A settled write.                                                          *)
LEMMA WriteToken ==
  ASSUME IInv, [Next]_vars, NEW k \in Run, Token(k), WriteSettles
  PROVE  Token(k)'
<1>0. /\ IType' /\ writes \in Seq(Write) /\ writes # <<>>
      /\ UNCHANGED <<terminal, toView>> /\ (view[k] = "final" => view'[k] = "final")
  BY TypeStep, FinalStays DEF IInv, IType, QueueType, WriteSettles
<1>1. Tail(writes) \in Seq(Write) /\ \A j \in DOMAIN Tail(writes) : j + 1 \in DOMAIN writes /\ Tail(writes)[j] = writes[j + 1]
  BY <1>0, TailShifts, HeadTailProperties
<1>2. CASE SendWritten
  <2>1. writes' = Tail(writes) /\ frozen' = 0 /\ StartRun(0)
    BY <1>2 DEF SendWritten
  <2>2. frozen' # k
    BY <2>1 DEF Run
  <2>3. \A r \in Run : source'[r] = k => source[r] = k
    <3>1. k # 0 /\ source \in [Run -> 0..MaxRuns]
      BY DEF Run, IInv, IType, FreezeType
    <3>2. \E r : source' = [source EXCEPT ![r] = 0]
      BY <2>1 DEF StartRun
    <3> QED
      BY <3>1, <3>2
  <2> QED
    BY <1>0, <1>1, <2>1, <2>2, <2>3, PlainToken
<1>3. CASE ResumeWritten
  BY <1>0, <1>3, ResumeToken
<1>4. CASE StopWritten
  <2>1. NeedsInput(Tail(writes)) /\ UNCHANGED <<frozen, source>>
    BY <1>4 DEF StopWritten, sessionVars
  <2>2. \A j \in DOMAIN writes' : Resumes(writes'[j], k) => j \in DOMAIN Tail(writes) /\ Resumes(Tail(writes)[j], k)
    BY <1>1, <2>1, NeedsInputPlain
  <2>3. \A j \in DOMAIN writes' : Resumes(writes'[j], k) => j + 1 \in DOMAIN writes /\ Resumes(writes[j + 1], k)
    BY <1>1, <2>2
  <2> QED
    BY <1>0, <2>1, <2>3, PlainToken
<1>5. CASE WriteFails
  <2>1. writes' = Tail(writes) /\ UNCHANGED <<frozen, source>>
    BY <1>5 DEF WriteFails, sessionVars
  <2> QED
    BY <1>0, <1>1, <2>1, PlainToken
<1> QED
  BY <1>2, <1>3, <1>4, <1>5 DEF WriteSettles

(* A message at the window.                                                  *)
LEMMA ReceiveToken ==
  ASSUME IInv, [Next]_vars, NEW k \in Run, Token(k), ViewReceives
  PROVE  Token(k)'
<1>0. /\ IType' /\ writes \in Seq(Write) /\ toView \in Seq(Sent) /\ toView # <<>>
      /\ toView' = Tail(toView) /\ toView' \in Seq(Sent) /\ UNCHANGED <<source, main, terminal>>
      /\ (view[k] = "final" => view'[k] = "final")
  BY TypeStep, FinalStays DEF IInv, IType, QueueType, ViewType, ViewReceives, mainVars
<1>1. /\ \A i \in DOMAIN toView' : i + 1 \in DOMAIN toView /\ toView'[i] = toView[i + 1]
      /\ Head(toView) = toView[1] /\ 1 \in DOMAIN toView
  BY <1>0, TailShifts
<1>2. \A i \in DOMAIN toView' : IsDone(toView'[i], k) => i + 1 \in DOMAIN toView /\ IsDone(toView[i + 1], k)
  BY <1>1
<1>3. CASE AskArrives \/ DoneLost
  <2>1. UNCHANGED frozen /\ (writes' = writes \/ NeedsInput(writes))
    BY <1>3 DEF AskArrives, DoneLost
  <2>2. \A j \in DOMAIN writes' : Resumes(writes'[j], k) => j \in DOMAIN writes /\ Resumes(writes[j], k)
    BY <1>0, <2>1, NeedsInputPlain
  <2>3. \A j \in DOMAIN writes' : Resumes(writes'[j], k) => j + 0 \in DOMAIN writes /\ Resumes(writes[j + 0], k)
    <3>1. writes' \in Seq(Write)
      BY <1>0 DEF IType, QueueType
    <3>2. \A j \in DOMAIN writes' : j + 0 = j
      BY <3>1, LenProperties
    <3> QED
      BY <2>2, <3>2
  <2>4. OneResume(k)' /\ (Taken(k)' => Taken(k))
    <3>1. writes' \in Seq(Write)
      BY <1>0 DEF IType, QueueType
    <3> QED
      BY <1>0, <2>1, <2>3, <3>1, FewerTokens DEF Token
  <2>5. Spent(k)' /\ DoneOnce(k)'
    BY <1>0, <1>2, <2>4, SpentKept, DoneKept DEF Token
  <2> QED
    BY <2>4, <2>5 DEF Token
<1>4. CASE DoneArrives
  <2> DEFINE q == Head(toView).run
  <2>1. q \in Run /\ Fold(LiveViews, q) /\ IsDone(toView[1], q)
    <3>1. Head(toView) \in Sent
      BY <1>0, HeadTailProperties
    <3> QED
      BY <1>1, <1>4, <3>1 DEF DoneArrives, Sent, IsDone
  <2> HIDE DEF q
  <2>2. CASE q = k
    <3>1. terminal[k] # "none" /\ ~Taken(k)
      BY <1>1, <2>1, <2>2 DEF Token, Spent, DoneOnce
    <3>2. \A i \in DOMAIN toView' : ~IsDone(toView'[i], k)
      <4>1. \A i \in DOMAIN toView' : i + 1 # 1
        BY <1>0, LenProperties
      <4> QED
        BY <1>1, <1>2, <2>1, <2>2, <4>1 DEF Token, DoneOnce
    <3>3. LiveViews # {} => view'[k] = "final"
      <4>1. view[k] \in {"live", "final"}
        BY <3>1 DEF IInv, IType, FreezeType, TerminalIsLast, UnseenUncalled
      <4> QED
        BY <2>1, <4>1 DEF Fold, LiveViews
    <3> QED
      BY <1>0, <1>2, <2>1, <2>2, <3>1, <3>2, <3>3, FoldToken
  <2>3. CASE q # k
    BY <1>0, <1>2, <2>1, <2>3, FoldToken
  <2> QED
    BY <2>2, <2>3
<1> QED
  BY <1>3, <1>4 DEF ViewReceives

(* Every action keeps a token single and spent.                              *)
LEMMA TokenStep ==
  ASSUME IInv, [Next]_vars, NEW k \in Run, Token(k)
  PROVE  Token(k)'
<1>0. /\ IType' /\ writes \in Seq(Write)
      /\ (view[k] = "final" => view'[k] = "final")
      /\ (terminal[k] # "none" => terminal'[k] = terminal[k])
  BY TypeStep, FinalStays DEF IInv, IType, QueueType
<1>a. ASSUME UNCHANGED <<writes, frozen, source, toView>> PROVE Token(k)'
  BY <1>0, <1>a DEF Token, OneResume, Spent, Taken, DoneOnce, Resumes, IsDone
<1>1. ASSUME UNCHANGED <<frozen, source, toView, terminal, view>>,
             NEW w \in Write, w.op # "resume", writes' = Append(writes, w)
      PROVE  Token(k)'
  <2>1. \A j \in DOMAIN writes' : Resumes(writes'[j], k) => j \in DOMAIN writes /\ Resumes(writes[j], k)
    BY <1>0, <1>1, PlainAppend
  <2>2. \A j \in DOMAIN writes' : j + 0 = j
    BY <1>0, LenProperties DEF IType, QueueType
  <2> QED
    BY <1>0, <1>1, <2>1, <2>2, PlainToken
<1>2. CASE ComposerSubmit \/ CardSend \/ StopSession \/ \E q \in dock, answer \in Answer : Respond(q, answer)
  <2>1. UNCHANGED <<frozen, source, toView, terminal, view>>
    BY <1>2 DEF ComposerSubmit, CardSend, StopSession, Respond, sessionVars, mainVars
  <2>2. writes' = writes \/ \E w \in Write : w.op # "resume" /\ writes' = Append(writes, w)
    BY <1>2, WritesTyped
    DEF ComposerSubmit, CardSend, StopSession, Respond, ComposerSend
  <2> QED
    BY <1>1, <1>a, <2>1, <2>2
<1>3. CASE ResumeSession \/ AutoResume
  <2>1. UNCHANGED <<source, terminal, view, toView>>
    BY <1>3 DEF ResumeSession, AutoResume, mainVars
  <2>2. (TakeFreeze /\ frozen # 0) \/ UNCHANGED <<frozen, writes>>
    BY <1>3 DEF ResumeSession, AutoResume
  <2> QED
    BY <1>0, <1>a, <2>1, <2>2, TakeToken
<1>4. CASE WriteSettles
  BY <1>4, WriteToken
<1>5. CASE MainReceives
  BY <1>a, <1>5 DEF MainReceives, viewFrame
<1>6. CASE ViewReceives
  BY <1>6, ReceiveToken
<1>7. ASSUME NEW r \in Run, RunStep(r) \/ QuotaStop(r) PROVE Token(k)'
  <2>1. UNCHANGED <<writes, frozen, source, view>>
    BY <1>7
    DEF RunStep, Register, SetupThrows, Ask, AskFrame, LoopEnds, LoopThrows, QuotaStop,
        viewFrame
  <2>2. CASE Ask(r)
    BY <1>0, <2>2, AskToken
  <2>3. ASSUME NEW reason \in {"settled", "paused"}, LoopEnds(r, reason) PROVE Token(k)'
    BY <2>1, <2>3, ReturnToken DEF LoopEnds, ToolsIdle, Reason
  <2>4. CASE Register(r) \/ SetupThrows(r) \/ LoopThrows(r) \/ QuotaStop(r)
    <3>1. UNCHANGED toView
      BY <2>4 DEF Register, SetupThrows, LoopThrows, QuotaStop
    <3> QED
      BY <1>a, <2>1, <3>1
  <2> QED
    BY <1>7, <2>2, <2>3, <2>4 DEF RunStep
<1>8. ASSUME NEW r \in Run, ProviderStep(r) PROVE Token(k)'
  <2>1. Fold({r}, r) /\ view[r] = "live" /\ UNCHANGED <<source, toView, terminal>>
    BY <1>8 DEF ProviderStep, PromiseRejects, Fallback, mainVars
  <2>2. r = k => ~Taken(k)
    BY <2>1 DEF Token, Spent
  <2>3. \A i \in DOMAIN toView' : i + 0 = i
    BY <1>0, LenProperties DEF IType, ViewType
  <2>4. \A i \in DOMAIN toView' : IsDone(toView'[i], k) => i + 0 \in DOMAIN toView /\ IsDone(toView[i + 0], k)
    BY <2>1, <2>3
  <2>5. CASE Fallback(r)
    <3>1. r = k => \A i \in DOMAIN toView' : ~IsDone(toView'[i], k)
      BY <2>1, <2>5 DEF Fallback, IsDone
    <3>2. r = k => view'[k] = "final"
      BY <2>1 DEF Fold, LiveViews
    <3> QED
      BY <1>0, <2>1, <2>2, <2>4, <3>1, <3>2, FoldToken
  <2>6. CASE PromiseRejects(r)
    <3>1. frozen' = frozen
      BY <2>1, <2>6 DEF PromiseRejects, Fold
    <3>2. \A j \in DOMAIN writes' : Resumes(writes'[j], k) => j \in DOMAIN writes /\ Resumes(writes[j], k)
      <4>1. writes' = writes \/ NeedsInput(writes)
        BY <2>1 DEF Fold
      <4> QED
        BY <1>0, <4>1, NeedsInputPlain
    <3>3. \A j \in DOMAIN writes' : j + 0 = j
      BY <1>0, LenProperties DEF IType, QueueType
    <3> QED
      BY <1>0, <2>1, <3>1, <3>2, <3>3, PlainToken
  <2> QED
    BY <1>8, <2>5, <2>6 DEF ProviderStep
<1>9. ASSUME NEW id \in SharedIds, OtherSession(id) PROVE Token(k)'
  BY <1>a, <1>9 DEF OtherSession, viewFrame
<1>10. CASE UNCHANGED vars
  BY <1>a, <1>10 DEF vars, sessionVars
<1> QED
  BY <1>2, <1>3, <1>4, <1>5, <1>6, <1>7, <1>8, <1>9, <1>10 DEF Next, User, Progress

(* There is no token at the start.                                           *)
LEMMA TokenInit == Init => TokensSound
<1> SUFFICES ASSUME Init, NEW k \in Run PROVE Token(k)
  BY DEF TokensSound
<1>1. k # 0 /\ DOMAIN <<>> = {}
  BY DEF Run
<1>2. frozen # k /\ writes = <<>> /\ toView = <<>> /\ \A r \in Run : source[r] # k
  BY <1>1 DEF Init
<1> QED
  BY <1>1, <1>2 DEF Token, OneResume, Spent, Taken, DoneOnce

(* A set without two elements has at most one.                               *)
LEMMA AtMostOne ==
  ASSUME NEW S, \A x, y \in S : x = y
  PROVE  Cardinality(S) \in {0, 1} /\ (Cardinality(S) = 1 => S # {})
<1>1. CASE S = {}
  BY <1>1, FS_EmptySet
<1>2. CASE S # {}
  <2>1. PICK x : S = {x}
    BY <1>2
  <2> QED
    BY <1>2, <2>1, FS_Singleton
<1> QED
  BY <1>1, <1>2

(* A single token is what ResumedOnce counts.                                *)
LEMMA TokensCounted == TokensSound => ResumedOnce
<1> SUFFICES ASSUME TokensSound, NEW k \in Run
             PROVE  Cardinality({r \in Run : source[r] = k})
                      + Cardinality({j \in DOMAIN writes : writes[j].op = "resume" /\ writes[j].of = k})
                      + (IF frozen = k THEN 1 ELSE 0) <= 1
  BY DEF ResumedOnce
<1> DEFINE R == {r \in Run : source[r] = k}
           W == {j \in DOMAIN writes : writes[j].op = "resume" /\ writes[j].of = k}
<1>1. OneResume(k)
  BY DEF TokensSound, Token
<1>2. (\A x, y \in R : x = y) /\ (\A x, y \in W : x = y)
  BY <1>1 DEF OneResume, Resumes
<1>3. (R = {} \/ W = {}) /\ (frozen = k => R = {} /\ W = {})
  BY <1>1 DEF OneResume, Resumes
<1>4. Cardinality(R) \in {0, 1} /\ (Cardinality(R) = 1 => R # {})
  BY <1>2, AtMostOne
<1>5. Cardinality(W) \in {0, 1} /\ (Cardinality(W) = 1 => W # {})
  BY <1>2, AtMostOne
<1> HIDE DEF R, W
<1>6. Cardinality(R) + Cardinality(W) + (IF frozen = k THEN 1 ELSE 0) <= 1
  BY <1>3, <1>4, <1>5
<1> QED
  BY <1>6 DEF R, W

(* A frozen transcript is resent at most once, for any number of runs: the   *)
(* banner and the timer take it before they wait, and no run's terminal      *)
(* freezes it again.                                                         *)
THEOREM ResumedOnceCorrect == Spec => []ResumedOnce
<1>1. IInv /\ TokensSound /\ [Next]_vars => TokensSound'
  <2> SUFFICES ASSUME IInv, TokensSound, [Next]_vars, NEW k \in Run PROVE Token(k)'
    BY DEF TokensSound
  <2> QED
    BY TokenStep DEF TokensSound
<1> QED
  BY <1>1, TokenInit, TokensCounted, Invariant, PTL DEF Spec
=============================================================================
