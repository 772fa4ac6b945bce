--------------------------- MODULE ArtifactsIndex ---------------------------
(***************************************************************************)
(* The artifacts index of one scope (artifactsStorage.ts): an append-only  *)
(* file that mirrors the transcripts and the media beside them, and is the *)
(* only record of the rest.  Captures append to it while a rebuild, or the *)
(* cleanup after a deleted session, rewrites it.  The comment above        *)
(* rebuildArtifacts (lines 150-154) says that a rebuild loses the exports; *)
(* its body carries them over (156-175, 243-246), and so does this module. *)
(***************************************************************************)
EXTENDS Naturals, Sequences

CONSTANTS
  Messages,   \* plans and ui cards of the transcripts
  Media,      \* tables and documents stored beside them
  Records,    \* exports and change sets: they exist in the index alone
  SessionOf,  \* the session of each of them
  SessionFiles, \* the sessions, in the order of their files' names
  Jobs        \* the rebuilds and cleanups a behaviour may hold

Items == Messages \cup Media \cup Records
SessionIds == {SessionFiles[n] : n \in 1..Len(SessionFiles)}

VARIABLES
  stored,     \* what the transcripts and the media directories hold
  superseded, \* the plans whose transcript says they were superseded
  deleted,    \* the sessions whose files were deleted
  index,      \* the lines of the index: entries, and patches that supersede one
  torn,       \* the index ends in a line cut short
  pending,    \* lines on their way to the index
  job,        \* per rebuild or cleanup: how far it is
  recorded,   \* history: records that reached the index while it was not being rewritten, as
              \* long as no two jobs overlap and no crash cuts one short
  restored    \* history: a rebuild ended that no other writer met, and nothing began since

vars == <<stored, superseded, deleted, index, torn, pending, job, recorded, restored>>

Entry(i) == <<"entry", i>>
Patch(i) == <<"patch", i>>
Lines == {Entry(i) : i \in Items} \cup {Patch(i) : i \in Messages}
Of(line) == SessionOf[line[2]]

\* listArtifacts: lines of one id are merged, and a patch that meets no entry drops out.
Listed == {i \in Items : Entry(i) \in index}
ListedSuperseded == {i \in Listed : Patch(i) \in index}

\* extractArtifactsFromEntries and the scan of the media directories, for one session.
Extracted(s) ==
  {Entry(i) : i \in {i \in stored : SessionOf[i] = s}}
    \cup {Patch(i) : i \in {i \in superseded : SessionOf[i] = s}}

\* What the index alone records is in no transcript and in no media directory.
Separate ==
  /\ Records \cap (Messages \cup Media) = {}
  /\ SessionFiles \in Seq(SessionIds) /\ SessionOf \in [Items -> SessionIds]

NoJob == [pc |-> "idle", session |-> "none", kept |-> {}, lines |-> {}, scanned |-> 0, alone |-> FALSE]

Init ==
  /\ stored = {}
  /\ superseded = {}
  /\ deleted = {}
  /\ index = {}
  /\ torn = FALSE
  /\ pending = {}
  /\ job = [j \in Jobs |-> NoJob]
  /\ recorded = {}
  /\ restored = FALSE

Running == {j \in Jobs : job[j].pc \notin {"idle", "over"}}

\* No two rewrites overlap, and none is between its read of the index and its write, which
\* overwrites what is appended in between.
Unrewritten == \A j, k \in Running : j = k /\ job[j].pc \notin {"removing", "scanning", "dropping"}

Disturbed == [j \in Jobs |-> IF j \in Running THEN [job[j] EXCEPT !.alone = FALSE] ELSE job[j]]

-----------------------------------------------------------------------------
\* sessions:append of a plan or card, or a table or document stored: the truth is
\* written first, its line of the index is on its way.
Capture(i) ==
  /\ i \in (Messages \cup Media) \ stored
  /\ SessionOf[i] \notin deleted
  /\ stored' = stored \cup {i}
  /\ pending' = pending \cup {Entry(i)}
  /\ job' = Disturbed
  /\ restored' = FALSE
  /\ UNCHANGED <<superseded, deleted, index, torn, recorded>>

Supersede(i) ==
  /\ i \in (Messages \cap stored) \ superseded
  /\ superseded' = superseded \cup {i}
  /\ pending' = pending \cup {Patch(i)}
  /\ job' = Disturbed
  /\ restored' = FALSE
  /\ UNCHANGED <<stored, deleted, index, torn, recorded>>

\* artifacts:record.
Record(i) ==
  /\ i \in Records
  /\ Entry(i) \notin index \cup pending
  /\ SessionOf[i] \notin deleted
  /\ pending' = pending \cup {Entry(i)}
  /\ job' = Disturbed
  /\ restored' = FALSE
  /\ UNCHANGED <<stored, superseded, deleted, index, torn, recorded>>

\* appendArtifact: behind a line cut short it is read as part of it, and both are
\* dropped.  A rejected append is reported and forgotten.
AppendLine(line, written) ==
  /\ line \in pending
  /\ pending' = pending \ {line}
  /\ IF written
     THEN /\ index' = IF torn THEN index ELSE index \cup {line}
          /\ torn' = FALSE
          /\ recorded' = IF Unrewritten /\ ~torn
                         THEN recorded \cup ({line[2]} \cap Records) ELSE recorded
     ELSE UNCHANGED <<index, torn, recorded>>
  /\ job' = Disturbed
  /\ restored' = FALSE
  /\ UNCHANGED <<stored, superseded, deleted>>

Start(j, pc, s) ==
  /\ job[j].pc = "idle"
  /\ job' = [Disturbed EXCEPT ![j] =
       [NoJob EXCEPT !.pc = pc, !.session = s, !.alone = Running = {} /\ pending = {}]]
  /\ recorded' = IF Running = {} THEN recorded ELSE {}
  /\ restored' = FALSE

\* artifacts:rebuild, which the panel asks for whenever it is mounted.
Rebuild(j) ==
  /\ Start(j, "reading", "none")
  /\ UNCHANGED <<stored, superseded, deleted, index, torn, pending>>

\* Mutant: nothing is carried over.
ForgetRecords(j) ==
  /\ job[j].pc = "reading"
  /\ job' = [job EXCEPT ![j].pc = "removing"]
  /\ UNCHANGED <<stored, superseded, deleted, index, torn, pending, recorded, restored>>

\* The lines no scan can bring back are read.
KeepRecords(j) ==
  /\ job[j].pc = "reading"
  /\ job' = [job EXCEPT ![j].pc = "removing",
                        ![j].kept = {line \in index : line[1] = "entry" /\ line[2] \in Records}]
  /\ UNCHANGED <<stored, superseded, deleted, index, torn, pending, recorded, restored>>

RemoveIndex(j) ==
  /\ job[j].pc = "removing"
  /\ index' = {}
  /\ torn' = FALSE
  /\ job' = [job EXCEPT ![j].pc = "scanning"]
  /\ UNCHANGED <<stored, superseded, deleted, pending, recorded, restored>>

\* One transcript and its media, in the order of their names.
ScanSession(j) ==
  /\ job[j].pc = "scanning"
  /\ job[j].scanned < Len(SessionFiles)
  /\ job' = [job EXCEPT ![j].scanned = @ + 1,
                        ![j].lines = @ \cup Extracted(SessionFiles[job[j].scanned + 1])]
  /\ UNCHANGED <<stored, superseded, deleted, index, torn, pending, recorded, restored>>

\* What was scanned replaces whatever the index holds by now.
WriteScanned(j) ==
  /\ job[j].pc = "scanning"
  /\ job[j].scanned = Len(SessionFiles)
  /\ IF job[j].lines = {}
     THEN UNCHANGED <<index, torn>>
     ELSE index' = job[j].lines /\ torn' = FALSE
  /\ job' = [job EXCEPT ![j].pc = "keeping"]
  /\ UNCHANGED <<stored, superseded, deleted, pending, recorded, restored>>

Over(j) ==
  /\ job' = [job EXCEPT ![j] = [NoJob EXCEPT !.pc = "over"]]
  /\ restored' = (job[j].pc = "keeping" /\ job[j].alone)

AppendKept(j) ==
  /\ job[j].pc = "keeping"
  /\ index' = IF torn THEN index ELSE index \cup job[j].kept
  /\ torn' = (torn /\ job[j].kept = {})
  /\ Over(j)
  /\ UNCHANGED <<stored, superseded, deleted, pending, recorded>>

\* sessions:delete: the files go first, then the session's lines.
Delete(j, s) ==
  /\ s \notin deleted
  /\ deleted' = deleted \cup {s}
  /\ stored' = {i \in stored : SessionOf[i] # s}
  /\ superseded' = {i \in superseded : SessionOf[i] # s}
  /\ Start(j, "cleaning", s)
  /\ UNCHANGED <<index, torn, pending>>

ReadOthers(j) ==
  /\ job[j].pc = "cleaning"
  /\ job' = [job EXCEPT ![j].pc = "dropping",
                        ![j].lines = {line \in index : Of(line) # job[j].session}]
  /\ UNCHANGED <<stored, superseded, deleted, index, torn, pending, recorded, restored>>

WriteOthers(j) ==
  /\ job[j].pc = "dropping"
  /\ index' = job[j].lines
  /\ torn' = FALSE
  /\ Over(j)
  /\ UNCHANGED <<stored, superseded, deleted, pending, recorded>>

\* The program ends: what is under way is lost, perhaps in the middle of a line.
Crash ==
  /\ Running # {} \/ pending # {}
  /\ pending' = {}
  /\ torn' \in {torn} \cup (IF pending # {} THEN {TRUE} ELSE {})
  /\ job' = [j \in Jobs |-> IF j \in Running THEN [NoJob EXCEPT !.pc = "over"] ELSE job[j]]
  /\ recorded' = IF Running # {} THEN {} ELSE recorded
  /\ restored' = FALSE
  /\ UNCHANGED <<stored, superseded, deleted, index>>

JobStep(j) ==
  \/ Rebuild(j) \/ KeepRecords(j) \/ RemoveIndex(j) \/ ScanSession(j)
  \/ WriteScanned(j) \/ AppendKept(j) \/ ReadOthers(j) \/ WriteOthers(j)
  \/ \E s \in SessionIds : Delete(j, s)

Next ==
  \/ \E i \in Items : Capture(i) \/ Supersede(i) \/ Record(i)
  \/ \E line \in pending, written \in BOOLEAN : AppendLine(line, written)
  \/ \E j \in Jobs : JobStep(j)
  \/ Crash

Spec == Init /\ [][Next]_vars

-----------------------------------------------------------------------------
JobStates ==
  [pc : {"idle", "reading", "removing", "scanning", "keeping", "cleaning", "dropping", "over"},
   session : SessionIds \cup {"none"}, kept : SUBSET Lines, lines : SUBSET Lines,
   scanned : 0..Len(SessionFiles), alone : BOOLEAN]

TypeOK ==
  /\ stored \subseteq Messages \cup Media
  /\ superseded \subseteq Messages
  /\ deleted \subseteq SessionIds
  /\ index \subseteq Lines
  /\ torn \in BOOLEAN
  /\ pending \subseteq Lines
  /\ job \in [Jobs -> JobStates]
  /\ recorded \subseteq Records
  /\ restored \in BOOLEAN

\* A rebuild that met no other writer leaves an index that lists the transcripts and
\* the media as they are, whatever appends were lost, cut short or overwritten before.
RebuildRestores == restored => Listed \ Records = stored /\ ListedSuperseded = superseded

\* What exists in the index alone survives every rebuild and every cleanup of another
\* session that begins once it is there, and the captures that append meanwhile.  Lost are
\* the records appended while a rewrite is between its read and its write, all of them when
\* two rewrites overlap or a crash cuts one short, and one glued to a line cut short.
RecordsSurvive ==
  \A i \in recorded :
    \/ SessionOf[i] \in deleted
    \/ Entry(i) \in index
    \/ \E j \in Running : Entry(i) \in job[j].kept

ArtifactsKept == RebuildRestores /\ RecordsSurvive
=============================================================================
