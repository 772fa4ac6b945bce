---------------------------- MODULE ToolCommands ----------------------------
(***************************************************************************)
(* The tools that run something outside the process: bash (bashTool.ts),   *)
(* run_on_server and upload_to_server (sshTool.ts over sshExec.ts).  Each  *)
(* call races its command's end against a timer and the run's stop, and    *)
(* the first of them answers.  The stop reaches a call through a listener  *)
(* it adds to the run's signal: one added after the stop never hears it.   *)
(***************************************************************************)
EXTENDS Naturals

CONSTANTS
  Calls,     \* calls of one run
  MaxOutput, \* MAX_OUTPUT, in chunks
  Chunks,    \* bound: what a command writes
  Whole,     \* a whole file, in steps of one percent of the throttle's two
  None       \* not answered yet

VARIABLES
  stopped, \* the run's signal is aborted
  call     \* per call: its tool, how far it is, its command, what came of it

vars == <<stopped, call>>

Kinds == {"bash", "ssh", "upload"}

Init ==
  /\ stopped = FALSE
  /\ call \in [Calls -> [kind : Kinds, pc : {"idle"}, listens : {FALSE}, proc : {"none"},
                         held : {FALSE}, written : {0}, seen : {0}, sent : {0},
                         reported : {0}, answer : {None}]]

\* What the constants must be: amounts.
Amounts == MaxOutput \in Nat /\ Chunks \in Nat /\ Whole \in Nat

Is(c, pc) == call[c].pc = pc
Set(c, r) == call' = [call EXCEPT ![c] = r]

\* collect: the output as the call holds it; bash says when it was cut.
Output(r) == IF r.seen < MaxOutput THEN r.seen ELSE MaxOutput
Cut(r) == r.kind = "bash" /\ r.seen >= MaxOutput

\* finish: the first to settle the call answers; its timer and listener go.
Finish(r, why) ==
  [r EXCEPT !.pc = "settled", !.listens = FALSE,
            !.answer = [why |-> why, output |-> Output(r), cut |-> Cut(r)]]

\* bash spawns at once; the server tools first read the server's secret, and find it wanting.
Begin(c) ==
  /\ Is(c, "idle")
  /\ Set(c, IF call[c].kind = "bash"
            THEN [call[c] EXCEPT !.pc = "running", !.proc = "starting", !.listens = ~stopped]
            ELSE [call[c] EXCEPT !.pc = "preparing"])
  /\ UNCHANGED stopped

\* No such server, several of the name, a file outside the workspace, no key: no connection.
Refuse(c) == Is(c, "preparing") /\ Set(c, Finish(call[c], "refused")) /\ UNCHANGED stopped

Connect(c) ==
  /\ Is(c, "preparing")
  /\ Set(c, [call[c] EXCEPT !.pc = "running", !.proc = "starting", !.listens = ~stopped])
  /\ UNCHANGED stopped

\* The child is there, or the connection is ready and takes the command.
Starts(c) ==
  /\ call[c].proc = "starting" /\ Is(c, "running")
  /\ Set(c, [call[c] EXCEPT !.proc = "running"]) /\ UNCHANGED stopped

\* spawn, connect, exec, sftp or the transfer fails.
Fails(c) ==
  /\ Is(c, "running")
  /\ \/ call[c].proc = "starting"
     \/ call[c].kind = "upload" /\ call[c].proc = "running"
  /\ Set(c, [Finish(call[c], "failed") EXCEPT !.proc = "gone"]) /\ UNCHANGED stopped

Writes(c) ==
  /\ call[c].kind # "upload" /\ call[c].written < Chunks
  /\ call[c].proc = "running" \/ call[c].held
  /\ Set(c, [call[c] EXCEPT !.written = @ + 1]) /\ UNCHANGED stopped

Data(c) ==
  /\ call[c].seen < call[c].written
  /\ Set(c, [call[c] EXCEPT !.seen = @ + 1]) /\ UNCHANGED stopped

\* The command ends; a process it left behind may still hold its output open.
Exits(c, code, held) ==
  /\ call[c].proc = "running" /\ call[c].kind # "upload"
  /\ Set(c, [call[c] EXCEPT !.proc = code, !.held = held]) /\ UNCHANGED stopped

LetsGo(c) == call[c].held /\ Set(c, [call[c] EXCEPT !.held = FALSE]) /\ UNCHANGED stopped

\* Mutant: the answer is given when the command exits, not when its output has closed.
OnExit(r) == r.proc \in {"exit0", "exit1"}

\* The close event: the command has ended and its output was read to the end.
Closed(r) == r.proc \in {"exit0", "exit1"} /\ ~r.held /\ r.seen = r.written

Closes(c) ==
  /\ Is(c, "running") /\ Closed(call[c])
  /\ Set(c, Finish(call[c], call[c].proc)) /\ UNCHANGED stopped

\* onProgress: reported two percent on, after a second, and at the end; the transfer goes on
\* while the connection closes, after the answer too.
Step(c, slow) ==
  /\ call[c].kind = "upload" /\ call[c].proc = "running" /\ call[c].sent < Whole
  /\ LET sent == call[c].sent + 1
         report == sent >= call[c].reported + 2 \/ slow \/ sent = Whole
     IN  Set(c, [call[c] EXCEPT !.sent = sent, !.reported = IF report THEN sent ELSE @])
  /\ UNCHANGED stopped

Uploaded(c) ==
  /\ call[c].kind = "upload" /\ Is(c, "running") /\ call[c].sent = Whole
  /\ Set(c, [Finish(call[c], "exit0") EXCEPT !.proc = "gone"]) /\ UNCHANGED stopped

\* bash kills its child; a server goes on with its command when the connection ends.
Cease(r, why) ==
  [Finish(r, why) EXCEPT !.proc = IF r.kind = "bash" THEN "gone" ELSE @]

Timeout(c) == Is(c, "running") /\ Set(c, Cease(call[c], "timeout")) /\ UNCHANGED stopped

\* The stop settles the calls that listen.
Stop ==
  /\ ~stopped /\ stopped' = TRUE
  /\ call' = [c \in Calls |-> IF call[c].listens THEN Cease(call[c], "aborted") ELSE call[c]]

Next ==
  \/ Stop
  \/ \E c \in Calls :
       \/ Begin(c) \/ Refuse(c) \/ Connect(c) \/ Starts(c) \/ Fails(c) \/ Writes(c) \/ Data(c)
       \/ \E code \in {"exit0", "exit1"}, held \in BOOLEAN : Exits(c, code, held)
       \/ LetsGo(c) \/ Closes(c) \/ Uploaded(c) \/ Timeout(c)
       \/ \E slow \in BOOLEAN : Step(c, slow)

\* The store answers, and the timer of a call is always armed.
Fairness == \A c \in Calls : WF_vars(Connect(c)) /\ WF_vars(Timeout(c))

Spec == Init /\ [][Next]_vars /\ Fairness

----------------------------------------------------------------------------

TypeOK ==
  /\ stopped \in BOOLEAN
  /\ \A c \in Calls :
       /\ call[c].pc \in {"idle", "preparing", "running", "settled"}
       /\ call[c].proc \in {"none", "starting", "running", "exit0", "exit1", "gone"}
       /\ call[c].seen <= call[c].written /\ call[c].reported <= call[c].sent

\* A success is the command's own: it exited with 0 (or the file is over), and all it wrote
\* is in the answer, unless it was cut at the limit - which only bash admits.
SuccessIsWhole ==
  \A c \in Calls : call[c].answer # None /\ call[c].answer.why = "exit0" =>
    IF call[c].kind = "upload" THEN call[c].reported = Whole
    ELSE \/ call[c].answer.output = call[c].written
         \/ call[c].answer.output = MaxOutput /\ (call[c].kind = "bash" => call[c].answer.cut)

\* The shell of an answered bash call is dead, and a call the stop reached says so.
ShellsEnd ==
  \A c \in Calls : call[c].pc = "settled" =>
    /\ call[c].kind = "bash" => call[c].proc \notin {"starting", "running"}
    /\ call[c].answer.why = "aborted" => stopped

CommandsSound == SuccessIsWhole /\ ShellsEnd

\* A call that began - before the stop or after it - is answered.
CallsSettle == \A c \in Calls : call[c].pc \in {"preparing", "running"} ~> call[c].pc = "settled"
=============================================================================
