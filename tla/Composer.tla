------------------------------ MODULE Composer ------------------------------
(***************************************************************************)
(* The composer under a conversation: what is typed, mentioned, pasted or  *)
(* recalled, and when it is sent.  One composer serves every session in    *)
(* turn; a send waits for the provider, a run it may not interrupt goes on,*)
(* images are read in the background, and the user opens another session   *)
(* whenever he likes.                                                      *)
(*                                                                         *)
(* A text is its number (0: nothing typed) and the mentions it holds.  Its *)
(* own mentions, the ones picked since its session was opened, are noted   *)
(* for the properties, like the session a text was submitted in and the    *)
(* one an image was pasted in.                                             *)
(***************************************************************************)
EXTENDS Naturals, Sequences, FiniteSets

CONSTANTS
  Sessions,  \* session ids
  ReadOnly,  \* those that take no messages
  Mentions,  \* files, skills and sessions that can be mentioned
  Covers,    \* <<m, k>>: the inline text of k contains that of m
  MaxImages, \* images one message may carry
  Acts,      \* bound: what the user does, and runs that start
  Reads,     \* bound: images read at once
  None

VARIABLES
  open,     \* the session the composer serves
  running,  \* the sessions with a run in progress
  draft,    \* what the input holds
  acts,     \* what the user did so far
  queued,   \* the follow-up held for the end of the run
  sending,  \* the session a send waits for
  recorded, \* mentions picked and not forgotten
  images,   \* the strip of pending images
  reads,    \* image files being read
  cursor,   \* prompt history: entries, position and the draft left behind
  prompts,  \* what the user said in each session
  sent,     \* messages handed to the provider
  submits   \* times the user pressed send on something that could go

vars == <<open, running, draft, acts, queued, sending, recorded, images, reads, cursor, prompts,
          sent, submits>>
strip == <<images, reads>>
wire == <<sending, prompts, sent, submits>>

Empty == [n |-> 0, marks |-> {}, own |-> {}]
Without(s, i) == SubSeq(s, 1, i - 1) \o SubSeq(s, i + 1, Len(s))

Init ==
  /\ open = None /\ running = {}
  /\ draft = Empty /\ acts = 0 /\ queued = None /\ sending = None
  /\ recorded = {} /\ images = <<>> /\ reads = <<>> /\ cursor = None
  /\ prompts = [s \in Sessions |-> <<>>] /\ sent = <<>> /\ submits = 0

UserActs == acts < Acts /\ acts' = acts + 1

CanType == open # None /\ open \notin ReadOnly /\ sending = None

----------------------------------------------------------------------------
(* The input.                                                               *)

\* Any edit is an input event, and one the recall did not make ends the recall.
Edit(text) ==
  /\ draft' = text /\ cursor' = None
  /\ UNCHANGED <<open, running, queued, strip, wire>>

NewText(marks, own) == [n |-> acts + 1, marks |-> marks, own |-> own]

Types ==
  /\ CanType /\ UserActs
  /\ \E kept \in SUBSET draft.marks : Edit(NewText(kept, draft.own \cap kept))
  /\ UNCHANGED recorded

\* pick: the inline text replaces the token at the caret.
PicksMention(m) ==
  /\ CanType /\ UserActs /\ draft.n # 0 /\ recorded' = recorded \cup {m}
  /\ Edit([draft EXCEPT !.marks = @ \cup {m}, !.own = @ \cup {m}])

\* A slash command clears the input and runs, or puts its template there.
PicksCommand ==
  /\ CanType /\ UserActs /\ draft.n # 0
  /\ Edit(Empty) \/ Edit(NewText({}, {}))
  /\ UNCHANGED recorded

\* composerInsertRequest: the data browser's reference is appended, even to a disabled input.
Inserts ==
  /\ UserActs
  /\ Edit(NewText(draft.marks, draft.own)) /\ UNCHANGED recorded

----------------------------------------------------------------------------
(* Prompt history.                                                          *)

\* collectPromptHistory: duplicates collapse onto their latest occurrence.
Entries ==
  LET said == prompts[open]
  IN  SelectSeq(said, LAMBDA t : t.n # 0)

Apply(text) ==
  /\ draft' = [text EXCEPT !.own = {}]
  /\ UNCHANGED <<open, running, queued, recorded, strip, wire>>

Navigation == IF cursor # None THEN cursor ELSE [entries |-> Entries, index |-> Len(Entries) + 1, left |-> draft]

Up ==
  /\ CanType /\ UserActs /\ Navigation.entries # <<>> /\ Navigation.index > 1
  /\ cursor' = [Navigation EXCEPT !.index = @ - 1]
  /\ Apply(cursor'.entries[cursor'.index])

Down ==
  /\ CanType /\ UserActs /\ cursor # None
  /\ IF cursor.index < Len(cursor.entries)
     THEN cursor' = [cursor EXCEPT !.index = @ + 1] /\ Apply(cursor.entries[cursor.index + 1])
     ELSE cursor' = None /\ Apply(cursor.left)

\* Escape hands the draft back.
Cancel == CanType /\ UserActs /\ cursor # None /\ cursor' = None /\ Apply(cursor.left)

----------------------------------------------------------------------------
(* Images.                                                                  *)

\* addFile: a paste, a drop or a pick starts to read the file, if there is room now.
AddsFile ==
  /\ open # None /\ UserActs /\ Len(images) < MaxImages /\ Len(reads) < Reads
  /\ reads' = Append(reads, [from |-> open, late |-> FALSE])
  /\ UNCHANGED <<open, running, draft, queued, recorded, images, cursor, wire>>

\* Mutant: addImage leaves the limit to addFile.
AlwaysRoom(strip_) == TRUE

\* addImage: the strip may have filled while the file was read.
RoomFor(strip_) == Len(strip_) < MaxImages

FileRead(i) ==
  /\ i \in DOMAIN reads /\ reads' = Without(reads, i)
  /\ images' = IF RoomFor(images) THEN Append(images, reads[i]) ELSE images
  /\ UNCHANGED <<open, running, draft, acts, queued, recorded, cursor, wire>>

RemovesImage(i) ==
  /\ UserActs /\ i \in DOMAIN images /\ images' = Without(images, i)
  /\ UNCHANGED <<open, running, draft, queued, recorded, reads, cursor, wire>>

----------------------------------------------------------------------------
(* Sending.                                                                 *)

CanSend(text) == CanType /\ (text.n # 0 \/ images # <<>>)

Includes(text, m) == m \in text.marks \/ \E k \in text.marks : <<m, k>> \in Covers

\* collectAttachments: the recorded mentions still in the text.
Attachments(text) == {m \in recorded : Includes(text, m)}

Dispatch(text, home) ==
  /\ sending' = open
  /\ sent' = Append(sent, [session |-> open, home |-> home, text |-> text,
                           attached |-> Attachments(text), images |-> images])

\* Mutant: a follow-up that is held clears the composer as a sent one does.
ClearOnHold(text) == queued' = [text |-> text, home |-> open] /\ draft' = Empty /\ recorded' = {}

\* Never a second run on top of a live one.
Hold(text) == queued' = [text |-> text, home |-> open] /\ draft' = Empty /\ UNCHANGED recorded

Submits ==
  /\ CanSend(draft) /\ UserActs /\ submits' = submits + 1
  /\ IF open \in running
     THEN Hold(draft) /\ UNCHANGED <<sending, sent>>
     ELSE Dispatch(draft, open) /\ UNCHANGED <<queued, draft, recorded>>
  /\ UNCHANGED <<open, running, strip, cursor, prompts>>

SendSettles(ok) ==
  /\ sending # None /\ sending' = None
  /\ IF ok
     THEN /\ draft' = Empty /\ recorded' = {} /\ images' = <<>>
          /\ prompts' = [prompts EXCEPT ![sending] = Append(@, sent[Len(sent)].text)]
     ELSE UNCHANGED <<draft, recorded, images, prompts>>
  /\ UNCHANGED <<open, running, acts, queued, reads, cursor, sent, submits>>

\* Mutant: the flush leaves the held text where it was.
KeepQueued == queued

NothingQueued == None

\* flushQueuedFollowUp, on each render of a session that is not running.
Flush ==
  IF queued = None \/ sending # None
  THEN UNCHANGED <<queued, draft, sending, sent>>
  ELSE /\ queued' = NothingQueued /\ draft' = queued.text
       /\ IF CanSend(queued.text) THEN Dispatch(queued.text, queued.home)
          ELSE UNCHANGED <<sending, sent>>

RunEnds(s) ==
  /\ s \in running /\ running' = running \ {s}
  /\ IF s = open THEN Flush ELSE UNCHANGED <<queued, draft, sending, sent>>
  /\ UNCHANGED <<open, acts, recorded, strip, cursor, prompts, submits>>

RunStarts(s) ==
  /\ UserActs /\ s \notin running /\ running' = running \cup {s}
  /\ UNCHANGED <<open, draft, queued, recorded, strip, cursor, wire>>

\* Mutant: reset leaves the held follow-up to the session opened next.
HoldOn == queued

ResetQueued == None

\* openSession: reset, but for the text itself.
Opens(s) ==
  /\ UserActs /\ s # open /\ open' = s
  /\ queued' = ResetQueued /\ recorded' = {} /\ images' = <<>> /\ cursor' = None
  /\ draft' = [draft EXCEPT !.own = {}]
  /\ reads' = [i \in DOMAIN reads |-> [reads[i] EXCEPT !.late = TRUE]]
  /\ UNCHANGED <<running, wire>>

Next ==
  \/ Types \/ PicksCommand \/ Inserts \/ Submits
  \/ Up \/ Down \/ Cancel \/ AddsFile
  \/ \E m \in Mentions : PicksMention(m)
  \/ \E i \in 1 .. Reads : FileRead(i)
  \/ \E i \in 1 .. MaxImages : RemovesImage(i)
  \/ \E ok \in BOOLEAN : SendSettles(ok)
  \/ \E s \in Sessions : RunEnds(s) \/ RunStarts(s) \/ Opens(s)

Spec == Init /\ [][Next]_vars

----------------------------------------------------------------------------
Text == [n : 0 .. Acts, marks : SUBSET Mentions, own : SUBSET Mentions]

\* The shape of the composer's state.
TypeOK ==
  /\ open \in Sessions \cup {None} /\ sending \in Sessions \cup {None}
  /\ running \subseteq Sessions /\ recorded \subseteq Mentions
  /\ draft \in Text /\ acts \in 0 .. Acts
  /\ queued = None \/ queued \in [text : Text, home : Sessions]
  /\ \A i \in DOMAIN images : images[i].from \in Sessions
  /\ Len(reads) <= Reads /\ Len(sent) <= Acts + 1

\* A message goes to the session it was submitted in, at most once for each time the user
\* pressed send, even if it was held until a run ended, and whatever was opened meanwhile.
SentAsSubmitted ==
  /\ Len(sent) <= submits
  /\ \A i \in DOMAIN sent : sent[i].home = sent[i].session

\* It carries every mention picked for it, and none whose text it does not hold.
MentionsFollow ==
  \A i \in DOMAIN sent :
    /\ sent[i].text.own \subseteq sent[i].attached
    /\ \A m \in sent[i].attached : Includes(sent[i].text, m)

\* It carries no more images than a message may, and none of another session's but one that was
\* still being read when this session was opened.
ImagesFollow ==
  /\ Len(images) <= MaxImages
  /\ \A i \in DOMAIN sent : \A j \in DOMAIN sent[i].images :
       LET image == sent[i].images[j] IN image.from = sent[i].session \/ image.late

\* What leaves the composer is what the user put in it.
ComposerSound == SentAsSubmitted /\ MentionsFollow /\ ImagesFollow
=============================================================================
