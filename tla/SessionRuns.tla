---------------------------- MODULE SessionRuns ----------------------------
(***************************************************************************)
(* The runs of one session, from the composer to the main process: the     *)
(* composer's held follow-up (composerView.ts), the provider that starts,  *)
(* stops, freezes, resumes and folds runs (fileSessionsProvider.ts), the   *)
(* registry of controllers and open approvals (agentIpc.ts), and the IPC   *)
(* between the two processes.                                              *)
(*                                                                         *)
(* A run is numbered in the order `runAgentReply` starts it.  Its loop is  *)
(* reduced to what the registry sees of it: it asks for approvals, runs    *)
(* into the quota, ends with a reason or throws (AgentLoop has the rest).  *)
(* Each handler is cut at its awaits.                                      *)
(*                                                                         *)
(* The registry of open approvals is one map from tool-use ids for every   *)
(* run of every session, and the ids come from the provider: one that      *)
(* sends none gets `call_0`, `call_1`, ... in every reply                  *)
(* (openaiModelClient.ts).  So a request is more than its id here, and     *)
(* the runs of this session, and other sessions, may use an id again.      *)
(* A run has at most one request open: every tool the gate asks about is   *)
(* a batch of its own (toolRunner.ts), whatever the provider's comment on  *)
(* parallel batches expects.                                               *)
(***************************************************************************)
EXTENDS Integers, Sequences, FiniteSets

CONSTANTS
  MaxRuns,   \* bound: runs of the session
  MaxAsks,   \* bound: approvals one run asks for
  CallIds,   \* the tool-use ids the model gives this session's calls
  SharedIds  \* those that calls of other sessions have too

ASSUME SessionRunsAssumption ==
  /\ MaxRuns \in Nat \ {0} /\ MaxAsks \in Nat
  /\ SharedIds \subseteq CallIds

Run == 1..MaxRuns
Request == [run : Run, call : 1..MaxAsks, id : CallIds]

VARIABLES
  \* the composer
  queued,      \* queuedFollowUp is set
  sending,     \* isSending
  \* the provider
  status,      \* session.status
  writes,      \* the callers waiting in the write queue, in order
  frozen,      \* the run whose transcript is session.pausedTranscript, or 0
  timer,       \* the session's auto-resume timer is armed
  dock,        \* session.pendingApprovals
  view,        \* per run: its closure in runAgentReply
  source,      \* per run: the frozen run it resends, 0 for a new message
  \* the main process
  main,        \* per run: where its agent:run handler stands
  terminal,    \* per run: how its loop ended
  aborted,     \* per live run: its controller's signal
  controller,  \* abortControllers.get(sessionId), or 0
  pending,     \* pendingApprovals: this session's entries, one per id
  awaiting,    \* requests whose promise the permission gate still awaits
  listening,   \* per live run: the requests whose abort listener is on its signal
  clashed,     \* history of live runs: requests that met another under their id
  asked,       \* per run: requests made so far
  granted,     \* history of live runs: requests that were approved
  always,      \* the session allowlist has a grant
  \* the channels
  toMain,      \* stops and answers on their way to the main process
  toView       \* agent:event and agent:approval-request on their way back

composerVars == <<queued, sending>>
sessionVars == <<frozen, timer, dock, view, source>>
approvalVars == <<pending, awaiting, listening, clashed, asked, granted, always>>
mainVars == <<main, terminal, aborted, controller, approvalVars>>
vars == <<composerVars, status, writes, sessionVars, mainVars, toMain, toView>>

Stage == {"none", "called", "running", "ended"}
Reason == {"settled", "paused", "threw"}
Answer == {"deny", "once", "always"}
Write == [op : {"send"}, by : {"composer", "card"}]
         \cup [op : {"resume"}, of : Run] \cup [op : {"stop"}]

-----------------------------------------------------------------------------

Init ==
  /\ queued = FALSE
  /\ sending = FALSE
  /\ status = "NeedsInput"
  /\ writes = <<>>
  /\ frozen = 0
  /\ timer = FALSE
  /\ dock = {}
  /\ view = [r \in Run |-> "none"]
  /\ source = [r \in Run |-> 0]
  /\ main = [r \in Run |-> "none"]
  /\ terminal = [r \in Run |-> "none"]
  /\ aborted = [r \in Run |-> FALSE]
  /\ controller = 0
  /\ pending = {}
  /\ awaiting = {}
  /\ listening = {}
  /\ clashed = {}
  /\ asked = [r \in Run |-> 0]
  /\ granted = {}
  /\ always = FALSE
  /\ toMain = <<>>
  /\ toView = <<>>

LiveViews == {r \in Run : view[r] = "live"}

\* Runs started or certain to start: the model's bound on new ones.
Claims ==
  Cardinality({r \in Run : view[r] # "none"})
    + Cardinality({k \in DOMAIN writes : writes[k].op # "stop"})
    + (IF queued THEN 1 ELSE 0)

MayClaim == Claims < MaxRuns

ComposerSend == [op |-> "send", by |-> "composer"]

\* status.set(NeedsInput) after `ws` was enqueued: the composer re-renders, and
\* sends the follow-up it holds (flushQueuedFollowUp).
NeedsInput(ws) ==
  /\ status' = "NeedsInput"
  /\ IF queued /\ ~sending
     THEN /\ queued' = FALSE
          /\ sending' = TRUE
          /\ writes' = Append(ws, ComposerSend)
     ELSE /\ writes' = ws
          /\ UNCHANGED composerVars

-----------------------------------------------------------------------------
(* What the user does. *)

\* Enter in the composer: a follow-up to a session in progress is held back.
ComposerSubmit ==
  /\ ~sending
  /\ MayClaim
  /\ IF status = "InProgress"
     THEN ~queued /\ queued' = TRUE /\ UNCHANGED <<sending, writes>>
     ELSE sending' = TRUE /\ writes' = Append(writes, ComposerSend) /\ UNCHANGED queued
  /\ UNCHANGED <<status, sessionVars, mainVars, toMain, toView>>

\* A plan card, a UI card or the surface sends a turn, whatever the status.
CardSend ==
  /\ MayClaim
  /\ writes' = Append(writes, [op |-> "send", by |-> "card"])
  /\ UNCHANGED <<composerVars, status, sessionVars, mainVars, toMain, toView>>

\* stopSession, from the button a session in progress shows (bound: one stop in
\* transit).
StopSession ==
  /\ status = "InProgress"
  /\ \A k \in DOMAIN toMain : toMain[k].op # "stop"
  /\ \A k \in DOMAIN writes : writes[k].op # "stop"
  /\ toMain' = Append(toMain, [op |-> "stop"])
  /\ writes' = Append(writes, [op |-> "stop"])
  /\ UNCHANGED <<composerVars, status, sessionVars, mainVars, toView>>

WithId(requests, id) == {q \in requests : q.id = id}

\* respond: whatever has its id leaves the dock, and the last entry puts the run
\* to work.  All the main process hears of the request is that id.
Respond(q, answer) ==
  /\ q \in dock
  /\ dock' = dock \ WithId(dock, q.id)
  /\ status' = IF dock' = {} THEN "InProgress" ELSE status
  /\ toMain' = Append(toMain, [op |-> answer, id |-> q.id])
  /\ UNCHANGED <<composerVars, writes, frozen, timer, view, source,
                 mainVars, toView>>

\* resumeSession up to its write: the freeze is taken before anything is awaited.
\* Mutant: the transcript is read after it was cleared.
TakeFreezeEmpty ==
  /\ frozen' = 0
  /\ timer' = FALSE
  /\ writes' = Append(writes, [op |-> "resume", of |-> frozen'])

\* Mutant: the freeze is dropped only when the run starts.
TakeFreezeLate ==
  /\ timer' = FALSE
  /\ writes' = Append(writes, [op |-> "resume", of |-> frozen])
  /\ UNCHANGED frozen

TakeFreeze ==
  /\ frozen' = 0
  /\ timer' = FALSE
  /\ writes' = Append(writes, [op |-> "resume", of |-> frozen])

ResumeSession ==
  /\ frozen # 0
  /\ status # "InProgress"
  /\ MayClaim
  /\ TakeFreeze
  /\ UNCHANGED <<composerVars, status, dock, view, source, mainVars,
                 toMain, toView>>

\* The auto-resume timer fires.
AutoResume ==
  /\ timer
  /\ IF frozen # 0 /\ status # "InProgress"
     THEN MayClaim /\ TakeFreeze
     ELSE timer' = FALSE /\ UNCHANGED <<frozen, writes>>
  /\ UNCHANGED <<composerVars, status, dock, view, source, mainVars,
                 toMain, toView>>

-----------------------------------------------------------------------------
(* The write queue: what each caller does once its entry is on disk. *)

\* runAgentReply: its listeners are registered, its transcript is being built.
StartRun(of) ==
  LET r == Cardinality({q \in Run : view[q] # "none"}) + 1
  IN /\ view' = [view EXCEPT ![r] = "live"]
     /\ source' = [source EXCEPT ![r] = of]
     /\ main' = [main EXCEPT ![r] = "called"]

\* sendMessage goes on: a new message abandons a frozen run.
\* Mutant: it drops the frozen run and leaves its timer armed.
SendWrittenTimer ==
  /\ Head(writes).op = "send"
  /\ status' = "InProgress"
  /\ frozen' = 0
  /\ StartRun(0)
  /\ sending' = (sending /\ Head(writes).by # "composer")
  /\ writes' = Tail(writes)
  /\ UNCHANGED <<queued, timer, dock>>

SendWritten ==
  /\ Head(writes).op = "send"
  /\ status' = "InProgress"
  /\ frozen' = 0
  /\ timer' = FALSE
  /\ StartRun(0)
  /\ sending' = (sending /\ Head(writes).by # "composer")
  /\ writes' = Tail(writes)
  /\ UNCHANGED <<queued, dock>>

ResumeWritten ==
  /\ Head(writes).op = "resume"
  /\ status' = "InProgress"
  /\ StartRun(Head(writes).of)
  /\ writes' = Tail(writes)
  /\ UNCHANGED <<composerVars, frozen, timer, dock>>

StopWritten ==
  /\ Head(writes).op = "stop"
  /\ NeedsInput(Tail(writes))
  /\ UNCHANGED <<sessionVars, main>>

\* The append failed: its caller rejects and does nothing more.
WriteFails ==
  /\ sending' = (sending /\ Head(writes) # ComposerSend)
  /\ writes' = Tail(writes)
  /\ UNCHANGED <<queued, status, sessionVars, main>>

WriteSettles ==
  /\ writes # <<>>
  /\ SendWritten \/ ResumeWritten \/ StopWritten \/ WriteFails
  /\ UNCHANGED <<terminal, aborted, controller, approvalVars, toMain, toView>>

-----------------------------------------------------------------------------
(* The agent:run handler and its registry. *)

viewFrame == <<composerVars, status, writes, frozen, timer, dock, view, source>>

OfRun(requests, r) == {q \in requests : q.run = r}

\* The run is over: nothing aborts its controller any more, and what hung on it is
\* garbage.
Discard(r) ==
  /\ aborted' = [aborted EXCEPT ![r] = FALSE]
  /\ listening' = listening \ OfRun(listening, r)
  /\ clashed' = clashed \ OfRun(clashed, r)
  /\ granted' = granted \ OfRun(granted, r)

\* The transcript is built, agent.run invoked and resolveModelConfig has answered:
\* only now does the run's controller take the session's slot.
Register(r) ==
  /\ main[r] = "called"
  /\ main' = [main EXCEPT ![r] = "running"]
  /\ controller' = r
  /\ UNCHANGED <<viewFrame, terminal, aborted, approvalVars, toMain, toView>>

\* Anything fails on the way to `try`: agent:run rejects and nothing is cleaned up.
SetupThrows(r) ==
  /\ main[r] = "called" \/ (main[r] = "running" /\ asked[r] = 0)
  /\ main' = [main EXCEPT ![r] = "ended"]
  /\ terminal' = [terminal EXCEPT ![r] = "threw"]
  /\ Discard(r)
  /\ UNCHANGED <<viewFrame, controller, pending, awaiting, asked, always, toMain, toView>>

\* `pendingApprovals.set`, and the listener: an entry under the same id is lost.
PutToUser(q) ==
  LET same == WithId(listening, q.id)
  IN /\ pending' = (pending \ WithId(pending, q.id)) \cup {q}
     /\ awaiting' = awaiting \cup {q}
     /\ listening' = listening \cup {q}
     /\ clashed' = IF same = {} THEN clashed ELSE clashed \cup (same \cap awaiting) \cup {q}
     /\ toView' = Append(toView, [op |-> "ask", request |-> q])
     /\ UNCHANGED granted

NotPut == UNCHANGED <<pending, awaiting, listening, clashed, toView>>

AskFrame == <<viewFrame, main, terminal, aborted, controller, always, toMain>>

\* requestApproval: denied after an abort, approved if the session's allowlist
\* covers the call, and otherwise put to the user.
\* Mutant: the allowlist is asked before the signal.
AskGrantFirst(r) ==
  /\ main[r] = "running"
  /\ OfRun(awaiting, r) = {}
  /\ asked[r] < MaxAsks
  /\ asked' = [asked EXCEPT ![r] = @ + 1]
  /\ \E id \in CallIds :
       LET q == [run |-> r, call |-> asked[r] + 1, id |-> id]
       IN \/ always /\ granted' = granted \cup {q} /\ NotPut
          \/ aborted[r] /\ UNCHANGED granted /\ NotPut
          \/ ~aborted[r] /\ PutToUser(q)
  /\ UNCHANGED AskFrame

Ask(r) ==
  /\ main[r] = "running"
  /\ OfRun(awaiting, r) = {}
  /\ asked[r] < MaxAsks
  /\ asked' = [asked EXCEPT ![r] = @ + 1]
  /\ \E id \in CallIds :
       LET q == [run |-> r, call |-> asked[r] + 1, id |-> id]
       IN \/ aborted[r] /\ UNCHANGED granted /\ NotPut
          \/ ~aborted[r] /\ always /\ granted' = granted \cup {q} /\ NotPut
          \/ ~aborted[r] /\ PutToUser(q)
  /\ UNCHANGED AskFrame

\* Of the abort listeners in `fired`, those that find an entry to delete: the
\* first of each id, if the entry is this session's or, for a shared id,
\* another's.
Deleting(fired, theirs) ==
  {q \in fired :
     /\ q.id \in theirs \cup {p.id : p \in pending}
     /\ \A p \in WithId(fired, q.id) : q.call <= p.call}

\* controller.abort(), the first time, of a run that is not over: each listener
\* deletes the entry under its id, whosever it is, and if there was one denies its
\* own request.
\* Mutant: the entry goes and the promise stays.
AbortForgets(r) ==
  IF aborted[r] \/ main[r] # "running" THEN UNCHANGED <<aborted, pending, awaiting>>
  ELSE LET fired == OfRun(listening, r)
       IN /\ aborted' = [aborted EXCEPT ![r] = TRUE]
          /\ pending' = {p \in pending : WithId(fired, p.id) = {}}
          /\ UNCHANGED awaiting

Abort(r) ==
  IF aborted[r] \/ main[r] # "running" THEN UNCHANGED <<aborted, pending, awaiting>>
  ELSE LET fired == OfRun(listening, r)
       IN /\ aborted' = [aborted EXCEPT ![r] = TRUE]
          /\ pending' = {p \in pending : WithId(fired, p.id) = {}}
          /\ \E theirs \in SUBSET SharedIds : awaiting' = awaiting \ Deleting(fired, theirs)

\* A request of the run met the quota: the fast-stop aborts it.
QuotaStop(r) ==
  /\ main[r] = "running"
  /\ ~aborted[r]
  /\ Abort(r)
  /\ UNCHANGED <<viewFrame, main, terminal, controller, listening, clashed, asked,
                 granted, always, toMain, toView>>

\* `finally`: the session's slot is cleared and its approvals are settled -
\* whichever run they belong to.
\* Mutant: the entries go and their promises stay.
CleanUpForgets ==
  /\ controller' = 0
  /\ pending' = {}
  /\ UNCHANGED awaiting

CleanUp ==
  /\ controller' = 0
  /\ pending' = {}
  /\ awaiting' = awaiting \ pending

\* The handler is through: it reports the terminal on the event channel, cleans
\* up, and returns it.
Return(r, reason) ==
  /\ main' = [main EXCEPT ![r] = "ended"]
  /\ terminal' = [terminal EXCEPT ![r] = reason]
  /\ Discard(r)
  /\ toView' = Append(toView, [op |-> "done", run |-> r])
  /\ CleanUp

ToolsIdle(r) == main[r] = "running" /\ OfRun(awaiting, r) = {}

\* The loop has settled (a paused run has also looked up the reset time).
LoopEnds(r, reason) ==
  /\ ToolsIdle(r)
  /\ Return(r, reason)
  /\ UNCHANGED <<viewFrame, asked, always, toMain>>

\* The loop throws: nothing on the event channel, the promise rejects.
LoopThrows(r) ==
  /\ ToolsIdle(r)
  /\ main' = [main EXCEPT ![r] = "ended"]
  /\ terminal' = [terminal EXCEPT ![r] = "threw"]
  /\ Discard(r)
  /\ CleanUp
  /\ UNCHANGED <<viewFrame, asked, always, toMain, toView>>

RunStep(r) ==
  \/ Register(r)
  \/ SetupThrows(r)
  \/ Ask(r)
  \/ \E reason \in {"settled", "paused"} : LoopEnds(r, reason)
  \/ LoopThrows(r)

\* agent:stop aborts whatever controller holds the session's slot.
StopArrives ==
  /\ Head(toMain).op = "stop"
  /\ IF controller # 0 THEN Abort(controller) ELSE UNCHANGED <<aborted, pending, awaiting>>
  /\ UNCHANGED <<granted, always>>

\* agent:approval-response, for whatever entry has the id.
Answered(id, answer) ==
  LET hit == WithId(pending, id)
  IN /\ pending' = pending \ hit
     /\ awaiting' = awaiting \ hit
     /\ granted' = IF answer = "deny" THEN granted ELSE granted \cup hit
     /\ always' = (always \/ (answer = "always" /\ hit # {}))

AnswerArrives ==
  /\ Head(toMain).op \in Answer
  /\ Answered(Head(toMain).id, Head(toMain).op)
  /\ UNCHANGED aborted

MainReceives ==
  /\ toMain # <<>>
  /\ toMain' = Tail(toMain)
  /\ StopArrives \/ AnswerArrives
  /\ UNCHANGED <<viewFrame, main, terminal, controller, listening, clashed, asked,
                 toView>>

\* A run of another session under an id of this one: its request takes the entry's
\* place or its abort listener deletes it, or its answer comes to this one.
OtherSession(id) ==
  /\ WithId(pending, id) # {}
  /\ \/ /\ pending' = pending \ WithId(pending, id)
        /\ UNCHANGED <<awaiting, granted, always>>
     \/ \E answer \in Answer : Answered(id, answer)
  /\ UNCHANGED <<viewFrame, main, terminal, aborted, controller, listening, clashed,
                 asked, toMain, toView>>

-----------------------------------------------------------------------------
(* The provider hears back. *)

\* finalize, for each view in `rs` that is still live, with the terminal of run q.
Fold(rs, q) ==
  IF rs \cap LiveViews = {}
  THEN UNCHANGED <<composerVars, status, writes, frozen, timer, dock, view>>
  ELSE /\ view' = [r \in Run |-> IF r \in rs \cap LiveViews THEN "final" ELSE view[r]]
       /\ dock' = {}
       /\ IF terminal[q] = "paused"
          THEN frozen' = q /\ timer' \in BOOLEAN     \* armed if the reset is known
          ELSE UNCHANGED <<frozen, timer>>
       /\ NeedsInput(writes)

\* An approval request: every live view of the session puts it in the dock.
AskArrives ==
  /\ Head(toView).op = "ask"
  /\ IF LiveViews = {}
     THEN UNCHANGED <<composerVars, status, writes, dock>>
     ELSE dock' = dock \cup {Head(toView).request} /\ NeedsInput(writes)
  /\ UNCHANGED <<frozen, timer, view>>

\* A terminal: every live view of the session takes it for its own.
DoneArrives ==
  /\ Head(toView).op = "done"
  /\ Fold(LiveViews, Head(toView).run)

\* A terminal that does not make it to the window.
DoneLost ==
  /\ Head(toView).op = "done"
  /\ UNCHANGED <<composerVars, status, writes, frozen, timer, dock, view>>

ViewReceives ==
  /\ toView # <<>>
  /\ toView' = Tail(toView)
  /\ AskArrives \/ DoneArrives \/ DoneLost
  /\ UNCHANGED <<source, mainVars, toMain>>

\* agent.run rejected: the view folds at once.
PromiseRejects(r) ==
  /\ main[r] = "ended" /\ view[r] = "live"
  /\ terminal[r] = "threw"
  /\ Fold({r}, r)
  /\ UNCHANGED <<source, mainVars, toMain, toView>>

\* Mutant: nothing is scheduled for a promise that resolves.
FallbackNever(r) ==
  /\ main[r] = "ended" /\ view[r] = "live"
  /\ terminal[r] # "threw"
  /\ \A k \in DOMAIN toView : toView[k].op = "done" => toView[k].run # r
  /\ Fold({}, r)
  /\ UNCHANGED <<source, mainVars, toMain, toView>>

\* 300 ms after it resolved; by then the terminal has come through or is lost.
Fallback(r) ==
  /\ main[r] = "ended" /\ view[r] = "live"
  /\ terminal[r] # "threw"
  /\ \A k \in DOMAIN toView : toView[k].op = "done" => toView[k].run # r
  /\ Fold({r}, r)
  /\ UNCHANGED <<source, mainVars, toMain, toView>>

ProviderStep(r) == PromiseRejects(r) \/ Fallback(r)

-----------------------------------------------------------------------------

User ==
  \/ ComposerSubmit
  \/ CardSend
  \/ StopSession
  \/ \E q \in dock, answer \in Answer : Respond(q, answer)
  \/ ResumeSession

Progress == \E r \in Run : RunStep(r) \/ ProviderStep(r)

Next ==
  \/ User
  \/ AutoResume
  \/ WriteSettles
  \/ MainReceives
  \/ ViewReceives
  \/ Progress
  \/ \E r \in Run : QuotaStop(r)
  \/ \E id \in SharedIds : OtherSession(id)

Spec == Init /\ [][Next]_vars

\* Requests answer, both event loops go on and IPC is delivered; the user, the
\* clock and other sessions owe nothing.
LiveSpec ==
  /\ Spec
  /\ WF_writes(WriteSettles) /\ WF_toMain(MainReceives) /\ WF_toView(ViewReceives)
  /\ WF_<<main, asked, view>>(Progress)

-----------------------------------------------------------------------------
(* Properties *)

(* Every variable keeps its shape. *)
TypeOK ==
  /\ queued \in BOOLEAN /\ sending \in BOOLEAN
  /\ status \in {"InProgress", "NeedsInput"}
  /\ writes \in Seq(Write)
  /\ frozen \in 0..MaxRuns
  /\ timer \in BOOLEAN
  /\ dock \subseteq Request
  /\ view \in [Run -> {"none", "live", "final"}]
  /\ source \in [Run -> 0..MaxRuns]
  /\ main \in [Run -> Stage]
  /\ terminal \in [Run -> Reason \cup {"none"}]
  /\ aborted \in [Run -> BOOLEAN]
  /\ controller \in 0..MaxRuns
  /\ pending \subseteq Request
  /\ awaiting \subseteq Request
  /\ listening \subseteq Request
  /\ clashed \subseteq Request
  /\ asked \in [Run -> 0..MaxAsks]
  /\ granted \subseteq Request
  /\ always \in BOOLEAN

(* A request that shared its id with another live one, or may.               *)
Ambiguous(q) == q \in clashed \/ q.id \in SharedIds

(* No call waits for an answer that cannot come: what the gate awaits is in  *)
(* the registry, unless its id was used twice; and nothing in the registry   *)
(* belongs to a run that was aborted or is over (five places settle a        *)
(* request, each must do both).                                              *)
ApprovalsAccounted ==
  /\ pending \subseteq awaiting
  /\ \A q \in pending : ~aborted[q.run]
  /\ \A q \in awaiting : main[q.run] = "running"
  /\ \A q \in awaiting : q \in pending \/ Ambiguous(q)

(* A frozen transcript is resent at most once, whoever asks for it: the      *)
(* banner, the timer or both around somebody else's write.                   *)
ResumedOnce ==
  \A k \in Run :
    Cardinality({r \in Run : source[r] = k})
      + Cardinality({j \in DOMAIN writes : writes[j].op = "resume" /\ writes[j].of = k})
      + (IF frozen = k THEN 1 ELSE 0) <= 1

(* The auto-resume timer is only ever armed for a run that is frozen, and    *)
(* what is frozen is a run that paused.                                      *)
TimerGuardsFreeze ==
  /\ timer => frozen # 0
  /\ frozen # 0 => terminal[frozen] = "paused"

(* No call of a run is approved once the run is aborted: not by an answer    *)
(* behind the stop in the channel, not by the session's allowlist.           *)
NoGrantAfterStop == [][\A q \in granted' \ granted : ~aborted[q.run]]_vars

(* Every run that is over gets folded into the transcript, although its      *)
(* terminal may be lost: no fold stays owed for ever.  (That it is folded at *)
(* most once is how Fold is written, as finalize is: a view that is not live *)
(* is left alone.)                                                           *)
EndedRunFolds == []<>(\A r \in Run : main[r] = "ended" => view[r] = "final")

(* A run that was aborted ends, whatever it was waiting for, other than a    *)
(* request whose id was used twice: no abort stays owed for ever.  (A stop   *)
(* that finds no controller aborts nothing, and nothing is owed.)            *)
Stuck(r) == \E q \in awaiting : q.run = r /\ Ambiguous(q)

AbortEndsRun == []<>(\A r \in Run : aborted[r] => Stuck(r))

(* What composerView.ts says of a follow-up: "Never start a second run on    *)
(* top of a live one - hold the follow-up and send it when the run settles". *)
InMain(r) == main[r] \notin {"none", "ended"}

FollowUpHeld == [][sending' /\ ~sending => \A r \in Run : ~InMain(r)]_vars

(* What the provider says of an approval: it is surfaced on the session. A   *)
(* request the gate awaits is on its way there, in the dock, or answered.    *)
ApprovalSurfaced ==
  \A q \in awaiting :
    \/ q \in dock
    \/ \E k \in DOMAIN toView : toView[k].op = "ask" /\ toView[k].request = q
    \/ \E k \in DOMAIN toMain : toMain[k].op \in Answer /\ toMain[k].id = q.id

(* What agentIpc.ts says of a request: "the reply (or an abort / run end)    *)
(* resolves it".  No request of an aborted run is still awaited.             *)
StopSettlesApprovals == \A q \in awaiting : ~aborted[q.run]
=============================================================================
