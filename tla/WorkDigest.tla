----------------------------- MODULE WorkDigest -----------------------------
(***************************************************************************)
(* The work digest (workDigest.ts): what the runs of a session touched,    *)
(* carried from run to run as text - rendered at the end of a run, kept as *)
(* a hidden message, sent with the next transcript and parsed back into    *)
(* the next run's accumulator.  Sub-agents return theirs in a tool result. *)
(***************************************************************************)
EXTENDS Naturals, Sequences, SequencesExt

CONSTANTS
  Files,    \* paths the tools are called with
  Facts,    \* what remember_fact records
  MaxFiles, \* MAX_LISTED_FILES
  MaxFacts, \* MAX_FACTS
  Runs,     \* bound: runs of the session
  PerRun,   \* bound: tool calls of one run
  None      \* no digest message yet

VARIABLES
  carried, \* the newest digest message of the session, None without one
  digest,  \* the accumulator of the current run
  run,     \* number of the run, its state and its tool calls
  named    \* history: every file a digest message named, every fact

vars == <<carried, digest, run, named>>

Buckets == {"Read", "Wrote"}
Empty == [files |-> [b \in Buckets |-> <<>>], facts |-> <<>>]

Init ==
  /\ carried = None
  /\ digest = Empty
  /\ run = [n |-> 0, pc |-> "over", calls |-> 0, worked |-> FALSE]
  /\ named = {}

\* A JavaScript Set keeps the place of what it has.
Put(seq, x) == IF x \in ToSet(seq) THEN seq ELSE Append(seq, x)
Capped(seq, n) == IF Len(seq) > n THEN SubSeq(seq, 1, n) ELSE seq

\* formatList and buildWorkDigestText: the first files of each bucket are named.
Render(d) ==
  [files |-> [b \in Buckets |-> Capped(d.files[b], MaxFiles)], facts |-> d.facts,
   interrupted |-> FALSE]

\* seedWorkDigestFromText: the inverse of the rendering, into what is there already.
Seed(d, text) ==
  [files |-> [b \in Buckets |-> FoldLeft(Put, d.files[b], text.files[b])],
   facts |-> Capped(d.facts \o text.facts, MaxFacts)]

\* seedWorkDigestFromMessages: toTranscript forwards the newest digest only.
StartRun ==
  /\ run.pc = "over" /\ run.n < Runs
  /\ run' = [n |-> run.n + 1, pc |-> "running", calls |-> 0, worked |-> FALSE]
  /\ digest' = IF carried = None THEN Empty ELSE Seed(Empty, carried)
  /\ UNCHANGED <<carried, named>>

Calls == run.pc = "running" /\ run.calls < PerRun /\ run' = [run EXCEPT !.calls = @ + 1, !.worked = TRUE]

\* recordWorkDigest, once per tool_use of the reply, whether or not the tool succeeds.
RecordFile(b, f) ==
  /\ Calls
  /\ digest' = [digest EXCEPT !.files[b] = Put(@, f)]
  /\ UNCHANGED <<carried, named>>

RememberFact(k) ==
  /\ Calls
  /\ digest' = [digest EXCEPT !.facts = IF Len(@) < MaxFacts THEN Append(@, k) ELSE @]
  /\ UNCHANGED <<carried, named>>

\* The result of spawn_agent ends in the child's own digest, of files it read.
ChildReturns(f) ==
  /\ Calls
  /\ digest' = Seed(digest, Render([Empty EXCEPT !.files["Read"] = <<f>>]))
  /\ UNCHANGED <<carried, named>>

\* Mutant: an interrupted run's digest replaces the one the session carries.
FoldForgets(reason) ==
  IF reason = "completed"
  THEN IF run.worked THEN Render(digest) ELSE carried
  ELSE [Render(Empty) EXCEPT !.interrupted = TRUE]

\* finalizeRun: a completed run that worked leaves its digest; an interrupted one
\* emitted none, so the last one is marked - or an empty one, where there is none.
FoldDigest(reason) ==
  IF reason = "completed"
  THEN IF run.worked THEN Render(digest) ELSE carried
  ELSE IF carried = None THEN [Render(Empty) EXCEPT !.interrupted = TRUE]
       ELSE [carried EXCEPT !.interrupted = TRUE]

EndRun(reason) ==
  /\ run.pc = "running"
  /\ carried' = FoldDigest(reason)
  /\ run' = [run EXCEPT !.pc = "over"]
  /\ named' = named \cup
       (IF carried' = None THEN {}
        ELSE UNION {{<<b, carried'.files[b][i]>> : i \in 1..Len(carried'.files[b])} : b \in Buckets}
             \cup {<<"fact", carried'.facts[i]>> : i \in 1..Len(carried'.facts)})
  /\ UNCHANGED digest

Next ==
  \/ StartRun
  \/ \E b \in Buckets, f \in Files : RecordFile(b, f)
  \/ \E k \in Facts : RememberFact(k)
  \/ \E f \in Files : ChildReturns(f)
  \/ \E reason \in {"completed", "interrupted"} : EndRun(reason)

Spec == Init /\ [][Next]_vars

----------------------------------------------------------------------------

TypeOK ==
  /\ \A b \in Buckets : Len(digest.files[b]) <= MaxFiles + PerRun
  /\ Len(digest.facts) <= MaxFacts
  /\ run.n \in 0..Runs /\ run.calls \in 0..PerRun

\* What a digest message of the session once named, the newest one still names, through
\* interruptions, sub-agents and the caps on the lists.
DigestKeeps ==
  carried # None =>
    /\ \A x \in named :
         IF x[1] = "fact" THEN x[2] \in ToSet(carried.facts) ELSE x[2] \in ToSet(carried.files[x[1]])
    /\ \A b \in Buckets : IsInjective(carried.files[b]) /\ Len(carried.files[b]) <= MaxFiles
=============================================================================
