----------------------------- MODULE SubAgents -----------------------------
(***************************************************************************)
(* spawn_agent (spawnAgentTool.ts): a nested agent loop inside one tool    *)
(* call.  The tool folds what the child's loop yields into records for the *)
(* work panel - start, phases, tool calls, end - and into its answer.      *)
(* Calls of one batch run concurrently and share the run's stop.           *)
(***************************************************************************)
EXTENDS Naturals, Sequences, FiniteSets

CONSTANTS
  Children, \* spawn_agent calls of one batch
  MaxTurns, \* CHILD_MAX_TURNS
  Deltas,   \* bound: deltas and tool calls of a child
  None      \* no phase, no answer

VARIABLES
  stopped, \* the run's signal
  loop,    \* per child: where its loop is, its turn, the turn of its last text, deltas, calls
  fold,    \* per child: the tool's locals and its answer
  records  \* per child: what the work panel was told

vars == <<stopped, loop, fold, records>>

Phases == {"thinking", "replying"}

\* No phase is not a phase.
Labelled == None \notin Phases

\* A text is told apart by the turn that said it; 0 is no text, or a blank one.
Init ==
  /\ stopped = FALSE
  /\ loop = [c \in Children |-> [at |-> "idle", turn |-> 0, said |-> 0, n |-> 0]]
  /\ fold = [c \in Children |-> [conclusion |-> 0, digest |-> FALSE, calls |-> 0,
                                 phase |-> None, answer |-> None]]
  /\ records = [c \in Children |-> <<>>]

Record(c, r) == records' = [records EXCEPT ![c] = Append(@, r)]

Begin(c) ==
  /\ loop[c].at = "idle"
  /\ loop' = [loop EXCEPT ![c].at = "turns"]
  /\ Record(c, [type |-> "start"]) /\ UNCHANGED <<stopped, fold>>

TurnStart(c) ==
  /\ loop[c].at = "turns" /\ loop[c].turn < MaxTurns
  /\ loop' = [loop EXCEPT ![c].at = "streams", ![c].turn = @ + 1]
  /\ fold' = [fold EXCEPT ![c].phase = None] /\ UNCHANGED <<stopped, records>>

\* Mutant: the throttle holds back the first record of a phase too.
ThrottleAll(entered, due) == due

\* streamProgress: recorded as a phase is entered, then when the last record is old enough.
Reports(entered, due) == entered \/ due

Delta(c, phase, due) ==
  /\ loop[c].at = "streams" /\ loop[c].n < Deltas
  /\ loop' = [loop EXCEPT ![c].n = @ + 1]
  /\ fold' = [fold EXCEPT ![c].phase = phase]
  /\ IF Reports(fold[c].phase # phase, due) THEN Record(c, [type |-> phase]) ELSE UNCHANGED records
  /\ UNCHANGED stopped

\* The stream ends: assistant_message if the turn has a text, and the last text wins, be it blank.
Message(c, said) ==
  /\ loop[c].at = "streams" /\ said \in {0, loop[c].turn}
  /\ loop' = [loop EXCEPT ![c].at = "calls", ![c].said = said]
  /\ fold' = [fold EXCEPT ![c].conclusion = said] /\ UNCHANGED <<stopped, records>>

Silent(c) ==
  /\ loop[c].at = "streams"
  /\ loop' = [loop EXCEPT ![c].at = "calls"] /\ UNCHANGED <<stopped, fold, records>>

\* A tool call takes the label; the next delta announces its phase again.
ToolUse(c) ==
  /\ loop[c].at = "calls" /\ loop[c].n < Deltas
  /\ loop' = [loop EXCEPT ![c].n = @ + 1]
  /\ fold' = [fold EXCEPT ![c].calls = @ + 1, ![c].phase = None]
  /\ Record(c, [type |-> "tool"]) /\ UNCHANGED stopped

NextTurn(c) ==
  /\ loop[c].at = "calls" /\ loop[c].turn < MaxTurns
  /\ loop' = [loop EXCEPT ![c].at = "turns"] /\ UNCHANGED <<stopped, fold, records>>

Digest(c) ==
  /\ loop[c].at = "calls" /\ fold[c].calls > 0
  /\ loop' = [loop EXCEPT ![c].at = "ends"]
  /\ fold' = [fold EXCEPT ![c].digest = TRUE] /\ UNCHANGED <<stopped, records>>

Answer(reason, r) ==
  IF reason = "aborted" \/ r.conclusion = 0 THEN [ok |-> FALSE, text |-> 0, digest |-> FALSE]
  ELSE [ok |-> TRUE, text |-> r.conclusion, digest |-> r.digest]

\* The loop returns: a finished reply, the last turn, or the stop, wherever it is seen.
Returns(c, reason) ==
  /\ loop[c].at \in IF reason = "aborted" THEN {"turns", "streams", "calls"} ELSE {"calls", "ends"}
  /\ reason = "aborted" => stopped
  /\ reason = "max_turns" => loop[c].turn = MaxTurns
  /\ loop' = [loop EXCEPT ![c].at = "over"]
  /\ fold' = [fold EXCEPT ![c].answer = Answer(reason, fold[c])]
  /\ Record(c, [type |-> "end", calls |-> fold[c].calls]) /\ UNCHANGED stopped

\* The child's stream fails for good: the loop throws through the tool, which records no end;
\* the runner turns what was thrown into the answer.
Throws(c) ==
  /\ loop[c].at = "streams"
  /\ loop' = [loop EXCEPT ![c].at = "over"]
  /\ fold' = [fold EXCEPT ![c].answer = [ok |-> FALSE, text |-> 0, digest |-> FALSE]]
  /\ UNCHANGED <<stopped, records>>

Stop == ~stopped /\ stopped' = TRUE /\ UNCHANGED <<loop, fold, records>>

Next ==
  \/ Stop
  \/ \E c \in Children :
       \/ Begin(c) \/ TurnStart(c) \/ Silent(c) \/ ToolUse(c) \/ NextTurn(c) \/ Digest(c) \/ Throws(c)
       \/ \E phase \in Phases, due \in BOOLEAN : Delta(c, phase, due)
       \/ \E said \in 0..MaxTurns : Message(c, said)
       \/ \E reason \in {"completed", "max_turns", "aborted"} : Returns(c, reason)

Spec == Init /\ [][Next]_vars

----------------------------------------------------------------------------

TypeOK ==
  /\ stopped \in BOOLEAN
  /\ \A c \in Children :
       /\ loop[c].at \in {"idle", "turns", "streams", "calls", "ends", "over"}
       /\ fold[c].phase \in Phases \cup {None} /\ fold[c].calls <= Deltas

Last(c) == records[c][Len(records[c])].type
Count(c, type) == Cardinality({i \in 1..Len(records[c]) : records[c][i].type = type})

\* The panel's label is the child's doing: after the deltas of a turn it is their phase, after
\* a tool call that call.
LabelFollows ==
  \A c \in Children : loop[c].at = "streams" /\ fold[c].phase # None => Last(c) = fold[c].phase

\* A child's records close once, with the calls they list; the answer is the last text the
\* child said, and a success only if it said one.
AnswersSound ==
  \A c \in Children :
    /\ Count(c, "end") <= 1
    /\ Count(c, "end") = 1 => Last(c) = "end" /\ records[c][Len(records[c])].calls = Count(c, "tool")
    /\ fold[c].answer # None /\ fold[c].answer.ok => fold[c].answer.text = loop[c].said /\ loop[c].said > 0

ChildrenSound == LabelFollows /\ AnswersSound
=============================================================================
