----------------------------- MODULE SessionLog -----------------------------
(***************************************************************************)
(* The persistence of one session: the provider's write queue              *)
(* (fileSessionsProvider.ts), what the window shows before, at and after   *)
(* each write, the file behind it, failed and torn appends, quitting,      *)
(* crashes and the next start.  Status, approvals and the life of a run in *)
(* the main process are the matter of SessionRuns: here a run is live from *)
(* the write that starts it until its view folds it.                       *)
(***************************************************************************)
EXTENDS Integers, Sequences, FiniteSets, FiniteSetsExt

CONSTANTS
  MaxRequests,  \* bound: runs and edits the user asks for
  MaxMishaps    \* bound: writes that fail and times the program ends

ASSUME SessionLogAssumption ==
  MaxRequests \in Nat \ {0} /\ MaxMishaps \in Nat

-----------------------------------------------------------------------------
(***************************************************************************)
(* The transcript on disk (sessionsStorage.ts): a JSONL file that starts   *)
(* with a header and grows by one line per append, and the fold that reads *)
(* it back.  A line is the entry it parses to, or Garbage.  An append cut  *)
(* short leaves the last line without its newline, and the next append is  *)
(* glued to it.                                                            *)
(***************************************************************************)

Run == 1..MaxRequests

\* What a run leaves in the conversation: the user's message that started it, and
\* what its end persists (work block, answer, plans, digest), taken as one message.
Message == [kind : {"message"}, role : {"user", "assistant"}, run : Run]
Title == {"query", "generated", "renamed"}
Untitled == ""

Header == [kind |-> "session"]
Say(role, r) == [kind |-> "message", role |-> role, run |-> r]
Titled(t) == [kind |-> "title", title |-> t]
Pinned(b) == [kind |-> "pinned", pinned |-> b]
Paused(r) == [kind |-> "paused", run |-> r]
Tombstone == Paused(0)            \* pausedRun: null
Status == [kind |-> "status"]     \* a state entry with a status and no more

Entry ==
  {Header, Status} \cup Message
    \cup {Titled(t) : t \in Title} \cup {Pinned(b) : b \in BOOLEAN}
    \cup {Paused(r) : r \in Run \cup {0}}

Garbage == [kind |-> "garbage"]
Line == Entry \cup {Garbage}

\* `closed`: the last line ends with its newline.
File == [lines : Seq(Line), closed : BOOLEAN]
NoFile == [lines |-> <<>>, closed |-> TRUE]

(* Writing. *)

\* The lines once the text of `line` is added at the end: a line of its own, or
\* glued to one that was left open.
Joined(file, line) ==
  IF file.closed
  THEN Append(file.lines, line)
  ELSE [file.lines EXCEPT ![Len(file.lines)] = Garbage]

\* Mutant: appendSessionEntry forgets the newline.
AppendedBare(file, entry) == [lines |-> Joined(file, entry), closed |-> entry = Header]

\* createSessionFile, appendSessionEntry.
Appended(file, entry) == [lines |-> Joined(file, entry), closed |-> TRUE]

\* The same cut short: somewhere inside the text, or just before the newline.
Torn(file) == [lines |-> Joined(file, Garbage), closed |-> FALSE]
Unterminated(file, entry) == [lines |-> Joined(file, entry), closed |-> FALSE]

(* Reading: loadSessionFromFile. *)

\* Mutant: any file that is not empty is a session.
LoadsHeadless(file) == file.lines # <<>>

\* A file whose first line is no header is not a session.
Loads(file) == file.lines # <<>> /\ file.lines[1] = Header

\* The last line of a kind decides, `default` if there is none.
LastOf(file, kind, default) ==
  LET at == {i \in DOMAIN file.lines : file.lines[i].kind = kind}
  IN IF at = {} THEN default ELSE file.lines[Max(at)]

FoldedMessages(file) ==
  {file.lines[i] : i \in {j \in DOMAIN file.lines : file.lines[j].kind = "message"}}
FoldedTitle(file) == LastOf(file, "title", [title |-> Untitled]).title
FoldedPinned(file) == LastOf(file, "pinned", Pinned(FALSE)).pinned
FoldedFreeze(file) == LastOf(file, "paused", Tombstone).run

\* The session as initialize() and hydrateSession put it into the window.
Hydrated(file) ==
  IF Loads(file)
  THEN [listed |-> TRUE,
        messages |-> FoldedMessages(file),
        title |-> FoldedTitle(file),
        isPinned |-> FoldedPinned(file),
        frozen |-> FoldedFreeze(file)]
  ELSE [listed |-> FALSE, messages |-> {}, title |-> Untitled, isPinned |-> FALSE, frozen |-> 0]

-----------------------------------------------------------------------------
VARIABLES
  window,   \* "up", "closing" once beforeunload has run, "down"
  session,  \* the session in the window's memory
  titling,  \* generateTitle awaits the model
  queue,    \* writeQueue: the jobs not settled yet, the first under way
  file,     \* the session's JSONL file
  phase,    \* per run: not asked for, its first write queued, live, over
  source,   \* per run: the frozen run it resends, 0 for a new message
  started,  \* history: runs that were handed to the agent
  landed,   \* history: messages whose append was acknowledged
  deleted,  \* history: a delete was acknowledged
  torn,     \* history: appends cut short
  failed,   \* history: appends and deletes that were rejected
  edits, exits

runVars == <<phase, source, started>>
countVars == <<edits, exits>>
vars == <<window, session, titling, queue, file, runVars, landed, deleted, torn, failed, countVars>>

\* A job of the queue: its appends, one after the other, and what its caller does
\* when all of them are acknowledged.
Remove == [kind |-> "remove"]
Job(op, r, entries) == [op |-> op, run |-> r, entries |-> entries]
Patch(entry) == Job("patch", 0, <<entry>>)
Persist(r, end) == Job("patch", 0, <<Say("assistant", r), end>>)

Init ==
  /\ window = "up"
  /\ session = Hydrated(NoFile)
  /\ titling = FALSE
  /\ queue = <<>>
  /\ file = NoFile
  /\ phase = [r \in Run |-> "none"]
  /\ source = [r \in Run |-> 0]
  /\ started = {}
  /\ landed = {}
  /\ deleted = FALSE
  /\ torn = 0
  /\ failed = 0
  /\ edits = 0
  /\ exits = 0

Asked == {r \in Run : phase[r] # "none"}
MayAsk == Cardinality(Asked) + edits < MaxRequests
Shown == window = "up" /\ session.listed
Live == {r \in Run : phase[r] = "live"}

\* Mutant: clearPausedRun(session, false), the freeze is dropped in memory only.
ClearedInMemory(q) == q

\* clearPausedRun(session, true) on top of the queue `q`.
Cleared(q) == IF session.frozen # 0 THEN Append(q, Patch(Tombstone)) ELSE q

Enters(r, from, entries, op, q) ==
  /\ MayAsk
  /\ r = Cardinality(Asked) + 1
  /\ phase' = [phase EXCEPT ![r] = "queued"]
  /\ source' = [source EXCEPT ![r] = from]
  /\ queue' = Append(q, Job(op, r, entries))
  /\ UNCHANGED <<window, titling, file, started, landed, deleted, torn, failed, countVars>>

-----------------------------------------------------------------------------
(* What the user does, and the auto-resume timer for them. *)

\* startSession: nothing is shown before the session is on disk.
StartSession ==
  /\ window = "up"
  /\ phase[1] = "none"
  /\ Enters(1, 0, <<Header, Say("user", 1), Titled("query")>>, "start", queue)
  /\ UNCHANGED session

\* Mutant: the run starts before its message is on disk.
SendBeforeWrite(r) ==
  /\ Shown
  /\ MayAsk
  /\ r = Cardinality(Asked) + 1
  /\ phase' = [phase EXCEPT ![r] = "live"]
  /\ queue' = Append(queue, Job("send", r, <<Say("user", r), Status>>))
  /\ UNCHANGED <<window, session, titling, file, source, started, landed, deleted, torn, failed, countVars>>

\* sendMessage, up to its await.
SendMessage(r) ==
  /\ Shown
  /\ Enters(r, 0, <<Say("user", r), Status>>, "send", queue)
  /\ UNCHANGED session

\* Mutant: the tombstone is written after the run was resumed.
ResumeThenClear(r) ==
  /\ Shown
  /\ session.frozen # 0
  /\ MayAsk
  /\ r = Cardinality(Asked) + 1
  /\ phase' = [phase EXCEPT ![r] = "queued"]
  /\ source' = [source EXCEPT ![r] = session.frozen]
  /\ session' = [session EXCEPT !.frozen = 0]
  /\ queue' = queue \o <<Job("resume", r, <<Status>>), Patch(Tombstone)>>
  /\ UNCHANGED <<window, titling, file, started, landed, deleted, torn, failed, countVars>>

\* resumeSession: the freeze is dropped first, its tombstone goes ahead of the
\* status.  (It returns in a session in progress; a live run that waits for an
\* approval takes the session out of it, so with a live run either may be the case.)
ResumeSession(r) ==
  /\ Shown
  /\ session.frozen # 0
  /\ Enters(r, session.frozen, <<Status>>, "resume", Cleared(queue))
  /\ session' = [session EXCEPT !.frozen = 0]

\* An edit queues one state entry.  A rename is shown at once, a pin when it has
\* landed, like the archive flag; the other edits follow one of the two.
Edit(entry) ==
  /\ Shown
  /\ MayAsk
  /\ edits' = edits + 1
  /\ queue' = Append(queue, Patch(entry))
  /\ UNCHANGED <<window, titling, file, runVars, landed, deleted, torn, failed, exits>>

RenameSession(t) ==
  /\ t # session.title
  /\ Edit(Titled(t))
  /\ session' = [session EXCEPT !.title = t]

TogglePin == Edit(Pinned(~session.isPinned)) /\ UNCHANGED session

\* deleteSession: the live run is not stopped, and the freeze is dropped without a
\* tombstone.
DeleteSession ==
  /\ Shown
  /\ \A k \in DOMAIN queue : queue[k].op # "delete"  \* bound: one delete at a time
  /\ session' = [session EXCEPT !.frozen = 0]
  /\ queue' = Append(queue, Job("delete", 0, <<Remove>>))
  /\ UNCHANGED <<window, titling, file, runVars, landed, deleted, torn, failed, countVars>>

-----------------------------------------------------------------------------
(* What the agent answers. *)

\* Mutant: the placeholder is not looked at again after the await.
TitleOverwrites ==
  /\ titling
  /\ window # "down"
  /\ titling' = FALSE
  /\ session' = [session EXCEPT !.title = "generated"]
  /\ queue' = Append(queue, Patch(Titled("generated")))
  /\ UNCHANGED <<window, file, runVars, landed, deleted, torn, failed, countVars>>

\* generateTitle after its await: only over the placeholder, only while listed.
TitleArrives ==
  /\ titling
  /\ window # "down"
  /\ titling' = FALSE
  /\ IF session.title = "query" /\ session.listed
     THEN /\ session' = [session EXCEPT !.title = "generated"]
          /\ queue' = Append(queue, Patch(Titled("generated")))
     ELSE UNCHANGED <<session, queue>>
  /\ UNCHANGED <<window, file, runVars, landed, deleted, torn, failed, countVars>>

\* Mutant: a frozen run is left open.
FinalizeOpen(r, reason) ==
  /\ window # "down"
  /\ phase[r] = "live"
  /\ phase' = [phase EXCEPT ![r] = IF reason = "paused" THEN "live" ELSE "over"]
  /\ session' = [session EXCEPT !.frozen = IF reason = "paused" THEN r ELSE @]
  /\ queue' = Append(queue, Persist(r, Status))
  /\ UNCHANGED <<window, titling, file, source, started, landed, deleted, torn, failed, countVars>>

\* finalize: the view changes at once, the writes are queued.
Finalize(r, reason) ==
  /\ window # "down"
  /\ phase[r] = "live"
  /\ phase' = [phase EXCEPT ![r] = "over"]
  /\ session' = [session EXCEPT
       !.messages = @ \cup {Say("assistant", r)},
       !.frozen = IF reason = "paused" THEN r ELSE @]
  /\ queue' = Append(queue, Persist(r, IF reason = "paused" THEN Paused(r) ELSE Status))
  /\ UNCHANGED <<window, titling, file, source, started, landed, deleted, torn, failed, countVars>>

-----------------------------------------------------------------------------
(* The write queue: an append of the first job lands, or fails. *)

Current == Head(queue)
Writing == window # "down" /\ queue # <<>>
First == Head(Current.entries)

\* `First` lands and is the last append of a job `op`.
LastLands(op) ==
  /\ Writing
  /\ Current.op = op
  /\ Len(Current.entries) = 1
  /\ file' = IF First = Remove THEN NoFile ELSE Appended(file, First)
  /\ landed' = IF First.kind = "message" THEN landed \cup {First} ELSE landed
  /\ UNCHANGED <<window, source, torn, failed, countVars>>

\* A job after its first append.
Rest(job) == [job EXCEPT !.entries = Tail(@)]

AppendLands ==
  /\ Writing
  /\ Len(Current.entries) > 1
  /\ file' = Appended(file, First)
  /\ landed' = IF First.kind = "message" THEN landed \cup {First} ELSE landed
  /\ queue' = <<Rest(Current)>> \o Tail(queue)
  /\ UNCHANGED <<window, session, titling, runVars, deleted, torn, failed, countVars>>

\* runAgentReply for the run of the job under way.
RunStarts ==
  /\ phase' = [phase EXCEPT ![Current.run] = "live"]
  /\ started' = started \cup {Current.run}

StartSettles ==
  /\ LastLands("start")
  /\ session' = [listed |-> TRUE, messages |-> {Say("user", Current.run)},
                 title |-> "query", isPinned |-> FALSE, frozen |-> 0]
  /\ titling' = TRUE
  /\ RunStarts
  /\ queue' = Tail(queue)
  /\ UNCHANGED deleted

\* The new message abandons a freeze.
SendSettles ==
  /\ LastLands("send")
  /\ session' = [session EXCEPT !.messages = @ \cup {Say("user", Current.run)}, !.frozen = 0]
  /\ RunStarts
  /\ queue' = Cleared(Tail(queue))
  /\ UNCHANGED <<titling, deleted>>

ResumeSettles ==
  /\ LastLands("resume")
  /\ RunStarts
  /\ queue' = Tail(queue)
  /\ UNCHANGED <<session, titling, deleted>>

DeleteSettles ==
  /\ LastLands("delete")
  /\ session' = [session EXCEPT !.listed = FALSE]
  /\ deleted' = TRUE
  /\ queue' = Tail(queue)
  /\ UNCHANGED <<titling, phase, started>>

PatchSettles ==
  /\ LastLands("patch")
  /\ session' = IF First.kind = "pinned" THEN [session EXCEPT !.isPinned = First.pinned] ELSE session
  /\ queue' = Tail(queue)
  /\ UNCHANGED <<titling, phase, started, deleted>>

\* What is on disk when `First` is cut short: of a delete, the transcript may be gone
\* and the media still there.
CutShort ==
  IF First = Remove THEN {file, NoFile} ELSE {file, Torn(file), Unterminated(file, First)}

Cut(f) ==
  /\ file' = f
  /\ torn' = IF f.closed \/ f = file THEN torn ELSE torn + 1

\* The append is rejected: the job's other appends never happen, its caller does
\* nothing more, and the queue goes on.
WriteFails ==
  /\ Writing
  /\ failed + exits < MaxMishaps
  /\ failed' = failed + 1
  /\ \E f \in CutShort : Cut(f)
  /\ queue' = Tail(queue)
  /\ phase' = IF Current.run # 0 THEN [phase EXCEPT ![Current.run] = "over"] ELSE phase
  /\ UNCHANGED <<window, session, titling, source, started, landed, deleted, countVars>>

-----------------------------------------------------------------------------
(* Ending and starting again. *)

\* beforeunload: every live run is finalized as app_quit, in the order they started.
\* The queue drains until the process ends.
Quit ==
  /\ window = "up"
  /\ window' = "closing"
  /\ \E order \in [1..Cardinality(Live) -> Live] :
       /\ \A i, j \in DOMAIN order : i < j => order[i] < order[j]
       /\ queue' = queue \o [i \in DOMAIN order |-> Persist(order[i], Status)]
  /\ session' = [session EXCEPT
       !.messages = @ \cup {Say("assistant", r) : r \in Live}]
  /\ phase' = [r \in Run |-> IF r \in Live THEN "over" ELSE phase[r]]
  /\ UNCHANGED <<titling, file, source, started, landed, deleted, torn, failed, countVars>>

\* The process ends, after Quit or by a crash; the append under way may be cut short,
\* or land with nobody left to hear of it.
Exit ==
  /\ window # "down"
  /\ failed + exits < MaxMishaps
  /\ exits' = exits + 1
  /\ window' = "down"
  /\ \/ queue = <<>> /\ UNCHANGED <<file, torn>>
     \/ queue # <<>> /\ \E f \in CutShort : Cut(f)
     \/ /\ queue # <<>>
        /\ First # Remove
        /\ Cut(Appended(file, First))
  /\ queue' = <<>>
  /\ session' = Hydrated(NoFile)
  /\ titling' = FALSE
  /\ phase' = [r \in Run |-> IF phase[r] \in {"queued", "live"} THEN "over" ELSE phase[r]]
  /\ UNCHANGED <<source, started, landed, deleted, failed, edits>>

\* initialize() of the next start.
Restart ==
  /\ window = "down"
  /\ window' = "up"
  /\ session' = Hydrated(file)
  /\ UNCHANGED <<titling, queue, file, runVars, landed, deleted, torn, failed, countVars>>

-----------------------------------------------------------------------------

User ==
  \/ StartSession
  \/ \E r \in Run : SendMessage(r) \/ ResumeSession(r)
  \/ \E t \in {"query", "renamed"} : RenameSession(t)
  \/ TogglePin
  \/ DeleteSession

Agent ==
  \/ TitleArrives
  \/ \E r \in Run, reason \in {"settled", "paused"} : Finalize(r, reason)

Writer ==
  \/ AppendLands \/ StartSettles \/ SendSettles \/ ResumeSettles
  \/ DeleteSettles \/ PatchSettles \/ WriteFails

Next == User \/ Agent \/ Writer \/ Quit \/ Exit \/ Restart

Spec == Init /\ [][Next]_vars

-----------------------------------------------------------------------------
(* Properties *)

JobType == [op : {"start", "send", "resume"}, run : Run, entries : Seq(Entry)]
           \cup [op : {"patch", "delete"}, run : {0}, entries : Seq(Entry \cup {Remove})]

\* Types; a freeze the window holds is that of a run that is over, and a run resends
\* an earlier one.
TypeOK ==
  /\ window \in {"up", "closing", "down"}
  /\ session \in [listed : BOOLEAN, messages : SUBSET Message, title : Title \cup {Untitled},
                  isPinned : BOOLEAN, frozen : Run \cup {0}]
  /\ session.frozen # 0 => phase[session.frozen] = "over"
  /\ titling \in BOOLEAN
  /\ queue \in Seq(JobType)
  /\ \A k \in DOMAIN queue : queue[k].entries # <<>>
  /\ file \in File
  /\ phase \in [Run -> {"none", "queued", "live", "over"}]
  /\ source \in [Run -> Run \cup {0}]
  /\ \A r \in Run : source[r] < r
  /\ started \subseteq Run
  /\ landed \subseteq Message
  /\ deleted \in BOOLEAN
  /\ torn \in Nat /\ failed \in Nat /\ edits \in 0..MaxRequests /\ exits \in 0..MaxMishaps

\* The fold gives back what the window shows: with no append lost and none under way,
\* a restart now would change nothing, whatever mixture of memory-first edits
\* (rename, finalize, freeze) and disk-first ones (send, pin) went before, and while
\* the program is closing as well.  (fileSessionsProvider.ts: updateX, then enqueueWrite.)
WindowMatchesLog ==
  window # "down" /\ session.listed /\ queue = <<>> /\ failed = 0 /\ torn = 0
    => session = Hydrated(file)

\* "A freeze is resumed at most once": unless an append failed, no two runs were
\* started from one frozen transcript, and one that was resumed is not offered again,
\* not even by the next start of the program (resumeSession, clearPausedRun).
FreezeSpentOnce ==
  failed = 0 /\ torn = 0 =>
    /\ \A r, s \in started : source[r] = source[s] /\ source[r] # 0 => r = s
    /\ session.frozen # 0 => \A r \in started : source[r] # session.frozen

\* An acknowledged delete is final: a live run and writes still in the queue go on
\* appending to the session's path, and no start of the program lists it again.
DeletedStaysDeleted == deleted => ~session.listed /\ ~Loads(file)

\* An append cut short costs at most one acknowledged message (the one glued to it), as
\* long as the header survives.
LossBounded == Loads(file) => Cardinality(landed \ FoldedMessages(file)) <= torn

\* What a run says is in the log after the message that asked for it, even when
\* appends fail: the run starts only once its question is on disk (sendMessage,
\* startSession).
ReplyFollowsQuestion ==
  torn = 0 /\ Loads(file) =>
    \A j \in DOMAIN file.lines :
      LET line == file.lines[j]
      IN line.kind = "message" /\ line.role # "user" /\ source[line.run] = 0
           => \E i \in 1..(j - 1) : file.lines[i] = Say("user", line.run)

\* A generated title never covers a rename in the log, unless the user went back to
\* the placeholder in between (renameSession against generateTitle).
RenameSticks ==
  failed = 0 /\ torn = 0 =>
    \A i, j \in DOMAIN file.lines :
      i < j /\ file.lines[i] = Titled("renamed") /\ file.lines[j] = Titled("generated")
        => \E k \in i..j : file.lines[k] = Titled("query")

\* As the test 'loadSession skips corrupt lines but keeps valid ones' has it: a message
\* whose append was acknowledged is in the fold, whatever corrupt line precedes it.
KeepsValidLines == Loads(file) => landed \subseteq FoldedMessages(file)
=============================================================================
