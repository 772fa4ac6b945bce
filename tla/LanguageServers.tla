-------------------------- MODULE LanguageServers --------------------------
(***************************************************************************)
(* read_symbol: the language servers of one run                            *)
(* (languageServerManager.ts) and the connection to each of them           *)
(* (lspTransport.ts).  The calls of a parallel batch share the servers; a  *)
(* server may be missing, stay silent while it starts, answer nothing      *)
(* while it indexes, and die at any time.                                  *)
(***************************************************************************)
EXTENDS Naturals, Sequences

CONSTANTS
  Calls,      \* read_symbol calls of the run
  Languages,  \* the languages, in the order a call without a file hint tries them
  Files,      \* source files
  LanguageOf, \* the language of each file, by its extension
  Children,   \* bound: the server processes a behaviour may start
  Retries,    \* QUERY_RETRIES: how often an empty answer is asked again
  None        \* no server, no file

VARIABLES
  servers,  \* per language: the process in the manager's map, None without an entry
  child,    \* per process: unused, starting, ready, dead once its stdout closed, killed
  open,     \* per process: the files its connection takes for open
  call,     \* per call: how far it is
  over,     \* the run ended and the manager was disposed
  sent,     \* history, per process and file: didOpen notifications sent
  raced     \* history: process and file that two calls were opening at a time

vars == <<servers, child, open, call, over, sent, raced>>

Tongues == {Languages[i] : i \in 1..Len(Languages)}
Idle == [pc |-> "idle", langs |-> <<>>, hint |-> None, srv |-> None, stage |-> "file",
         file |-> None, tries |-> 0]

Init ==
  /\ servers = [l \in Tongues |-> None]
  /\ child = [s \in Children |-> "unused"]
  /\ open = [s \in Children |-> {}]
  /\ call = [c \in Calls |-> Idle]
  /\ over = FALSE
  /\ sent = [s \in Children |-> [f \in Files |-> 0]]
  /\ raced = {}

\* What the constants must be: there are languages, every file is of one of them, and
\* nothing is called None.
Consistent ==
  /\ Languages \in Seq(Tongues) /\ Languages # <<>>
  /\ LanguageOf \in [Files -> Tongues]
  /\ None \notin Children \cup Files
  /\ Retries \in Nat

Answered(r) == [Idle EXCEPT !.pc = "answered"]

\* readSymbol: a hint pins the language; without one each language is tried in turn.
Read(c, hint) ==
  /\ ~over
  /\ call[c].pc = "idle"
  /\ call' = [call EXCEPT ![c] =
       [@ EXCEPT !.pc = "ensure", !.hint = hint,
                 !.langs = IF hint = None THEN Languages ELSE <<LanguageOf[hint]>>]]
  /\ UNCHANGED <<servers, child, open, over, sent, raced>>

\* The call has its server: the hinted file is opened, or the workspace searched.
WithServer(r) ==
  IF r.hint = None
  THEN [r EXCEPT !.pc = "ask", !.stage = "workspace", !.tries = 0]
  ELSE [r EXCEPT !.pc = "open", !.stage = "file", !.file = r.hint]

\* This language yields nothing: the next one of a call without a hint, else the end.
NextLanguage(r) ==
  IF r.hint = None /\ Len(r.langs) > 1
  THEN [r EXCEPT !.pc = "ensure", !.langs = Tail(r.langs), !.srv = None]
  ELSE Answered(r)

\* Mutant: the entry of a start under way is not shared.
StartAnyway(c) ==
  LET l == Head(call[c].langs)
  IN  /\ call[c].pc = "ensure"
      /\ servers[l] \in {None} \cup {s \in Children : child[s] = "starting"}
      /\ \E s \in Children :
           /\ child[s] = "unused"
           /\ child' = [child EXCEPT ![s] = "starting"]
           /\ servers' = [servers EXCEPT ![l] = s]
           /\ call' = [call EXCEPT ![c] = [@ EXCEPT !.pc = "wait", !.srv = s]]
      /\ UNCHANGED <<open, over, sent, raced>>

\* ensureServer without an entry: a process is spawned and its promise shared.
StartServer(c) ==
  LET l == Head(call[c].langs)
  IN  /\ call[c].pc = "ensure"
      /\ servers[l] = None
      /\ \E s \in Children :
           /\ child[s] = "unused"
           /\ child' = [child EXCEPT ![s] = "starting"]
           /\ servers' = [servers EXCEPT ![l] = s]
           /\ call' = [call EXCEPT ![c] = [@ EXCEPT !.pc = "wait", !.srv = s]]
      /\ UNCHANGED <<open, over, sent, raced>>

\* resolveServer finds no command: the entry is dropped again and the start throws.
NoServer(c) ==
  /\ call[c].pc = "ensure"
  /\ servers[Head(call[c].langs)] = None
  /\ call' = [call EXCEPT ![c] = NextLanguage(@)]
  /\ UNCHANGED <<servers, child, open, over, sent, raced>>

\* ensureServer with an entry: the promise of a start under way, or the server, which
\* may have died since.
JoinServer(c) ==
  LET s == servers[Head(call[c].langs)]
  IN  /\ call[c].pc = "ensure"
      /\ s # None
      /\ call' = [call EXCEPT ![c] = IF child[s] = "starting"
                                     THEN [@ EXCEPT !.pc = "wait", !.srv = s]
                                     ELSE WithServer([@ EXCEPT !.srv = s])]
      /\ UNCHANGED <<servers, child, open, over, sent, raced>>

\* The calls that share the promise of one start.
Waiting(s) == {c \in Calls : call[c].pc = "wait" /\ call[c].srv = s}

Initialized(s) ==
  /\ child[s] = "starting"
  /\ child' = [child EXCEPT ![s] = "ready"]
  /\ call' = [c \in Calls |-> IF c \in Waiting(s) THEN WithServer(call[c]) ELSE call[c]]
  /\ UNCHANGED <<servers, open, over, sent, raced>>

\* The handshake times out, and the process is killed, or stdout closes first: the
\* entry goes, so that a later call may start another, and everyone waiting fails.
InitFails(s, end) ==
  /\ child[s] = "starting"
  /\ child' = [child EXCEPT ![s] = end]
  /\ servers' = [l \in Tongues |-> IF servers[l] = s THEN None ELSE servers[l]]
  /\ call' = [c \in Calls |-> IF c \in Waiting(s) THEN NextLanguage(call[c]) ELSE call[c]]
  /\ UNCHANGED <<open, over, sent, raced>>

\* ensureOpen: the set is looked at, then the file is read.
OpenFile(c) ==
  LET s == call[c].srv
      f == call[c].file
  IN  /\ call[c].pc = "open"
      /\ call' = [call EXCEPT ![c].pc = IF f \in open[s] THEN "ask" ELSE "reading"]
      /\ raced' = raced \cup {<<s, f>> : d \in {d \in Calls \ {c} : call[d].pc = "reading"
                                                 /\ call[d].srv = s /\ call[d].file = f}}
      /\ UNCHANGED <<servers, child, open, over, sent>>

\* The text is there: didOpen goes out, into the void when the connection is closed.
FileRead(c) ==
  LET s == call[c].srv
      f == call[c].file
  IN  /\ call[c].pc = "reading"
      /\ sent' = IF child[s] = "ready" THEN [sent EXCEPT ![s][f] = @ + 1] ELSE sent
      /\ open' = [open EXCEPT ![s] = @ \cup {f}]
      /\ call' = [call EXCEPT ![c].pc = "ask", ![c].tries = 0]
      /\ UNCHANGED <<servers, child, over, raced>>

\* A read that fails, an error of the server, a slice that fails: the call answers
\* with the error.
Fails(c) ==
  /\ call[c].pc \in {"reading", "asked", "slice"}
  /\ call' = [call EXCEPT ![c] = Answered(@)]
  /\ UNCHANGED <<servers, child, open, over, sent, raced>>

\* A request: on a closed connection it is rejected at once.
SendRequest(c) ==
  /\ call[c].pc = "ask"
  /\ call' = [call EXCEPT ![c] = IF child[call[c].srv] = "ready"
                                 THEN [@ EXCEPT !.pc = "asked"] ELSE Answered(@)]
  /\ UNCHANGED <<servers, child, open, over, sent, raced>>

\* Where an answer leads once it is taken: a hit in the hinted file or the body is
\* sliced, a candidate of the workspace is opened for its full range, and a miss falls
\* back to the workspace, to the candidate's own range, or to the next language.
Found(r, f) ==
  IF r.stage = "workspace"
  THEN [r EXCEPT !.pc = "open", !.stage = "body", !.file = f]
  ELSE [r EXCEPT !.pc = "slice"]

Missed(r) ==
  CASE r.stage = "file" -> [r EXCEPT !.pc = "ask", !.stage = "workspace", !.tries = 0]
    [] r.stage = "workspace" -> NextLanguage(r)
    [] r.stage = "body" -> [r EXCEPT !.pc = "slice"]

AnswerArrives(c) ==
  LET r == call[c]
  IN  /\ r.pc = "asked"
      /\ child[r.srv] = "ready"
      /\ \/ \E f \in Files : LanguageOf[f] = Head(r.langs) /\ call' = [call EXCEPT ![c] = Found(r, f)]
         \/ call' = [call EXCEPT ![c] = Missed(r)]
         \/ /\ r.tries < Retries
            /\ call' = [call EXCEPT ![c] = [r EXCEPT !.pc = "ask", !.tries = @ + 1]]
      /\ UNCHANGED <<servers, child, open, over, sent, raced>>

Slice(c) ==
  /\ call[c].pc = "slice"
  /\ call' = [call EXCEPT ![c] = Answered(@)]
  /\ UNCHANGED <<servers, child, open, over, sent, raced>>

\* Mutant: the closed connection forgets the requests it owes an answer.
DiesUnnoticed(s) ==
  /\ child[s] = "ready"
  /\ child' = [child EXCEPT ![s] = "dead"]
  /\ UNCHANGED <<servers, open, call, over, sent, raced>>

\* A running server dies: every request it owes an answer is rejected, and its entry
\* stays in the map.
ServerDies(s) ==
  /\ child[s] = "ready"
  /\ child' = [child EXCEPT ![s] = "dead"]
  /\ call' = [c \in Calls |->
       IF call[c].pc = "asked" /\ call[c].srv = s THEN Answered(call[c]) ELSE call[c]]
  /\ UNCHANGED <<servers, open, over, sent, raced>>

\* The run is over, and with it its calls: every server in the map is shut down and
\* killed.
Dispose ==
  /\ ~over
  /\ \A c \in Calls : call[c].pc \in {"idle", "answered"}
  /\ over' = TRUE
  /\ child' = [s \in Children |->
       IF \E l \in Tongues : servers[l] = s THEN "killed" ELSE child[s]]
  /\ servers' = [l \in Tongues |-> None]
  /\ UNCHANGED <<open, call, sent, raced>>

\* The part of a call that only the code has to take.
CallStep(c) ==
  \/ StartServer(c) \/ NoServer(c) \/ JoinServer(c)
  \/ OpenFile(c) \/ FileRead(c) \/ SendRequest(c) \/ Slice(c)

Next ==
  \/ \E c \in Calls, hint \in Files \cup {None} : Read(c, hint)
  \/ \E c \in Calls : CallStep(c) \/ Fails(c) \/ AnswerArrives(c)
  \/ \E s \in Children : Initialized(s) \/ ServerDies(s)
  \/ \E s \in Children, end \in {"killed", "dead"} : InitFails(s, end)
  \/ Dispose

\* The code's own steps happen; a handshake ends, by the answer or by its timeout;
\* a server that started answers a request or dies, for the requests after the
\* handshake have no timeout.
Fairness ==
  /\ \A c \in Calls : WF_vars(CallStep(c)) /\ WF_vars(AnswerArrives(c))
  /\ \A s \in Children : WF_vars(InitFails(s, "killed"))

Spec == Init /\ [][Next]_vars /\ Fairness

-----------------------------------------------------------------------------
TypeOK ==
  /\ servers \in [Tongues -> Children \cup {None}]
  /\ child \in [Children -> {"unused", "starting", "ready", "dead", "killed"}]
  /\ open \in [Children -> SUBSET Files]
  /\ call \in [Calls ->
       [pc : {"idle", "ensure", "wait", "open", "reading", "ask", "asked", "slice", "answered"},
        langs : {SubSeq(Languages, i, Len(Languages)) : i \in 1..Len(Languages) + 1}
                  \cup {<<>>} \cup {<<l>> : l \in Tongues},
        hint : Files \cup {None}, srv : Children \cup {None},
        stage : {"file", "workspace", "body"}, file : Files \cup {None}, tries : 0..Retries]]
  /\ over \in BOOLEAN
  /\ sent \in [Children -> [Files -> Nat]]
  /\ raced \subseteq Children \X Files

Alive(s) == child[s] \in {"starting", "ready"}

\* However calls, failed starts and deaths interleave, a live process is the one its
\* language's entry names, so two live servers never serve one language, and a
\* disposed manager leaves no live process behind.
LiveIsMapped == \A s \in Children : Alive(s) => \E l \in Tongues : servers[l] = s

\* A call waits for a handshake only of a process that is still in it, and for an
\* answer only of a process that can still give one, having opened the file it asks
\* about on that very connection.
WaitsOnLive ==
  \A c \in Calls :
    /\ call[c].pc = "wait" => child[call[c].srv] = "starting"
    /\ call[c].pc = "asked" => child[call[c].srv] = "ready"
    /\ call[c].pc = "asked" /\ call[c].stage # "workspace" =>
         call[c].file \in open[call[c].srv] /\ sent[call[c].srv][call[c].file] > 0

\* A file is announced twice to one server only when two calls read it at a time:
\* the open set is looked at before the read and written after it.
DoubleOpenOnlyRaced ==
  \A s \in Children, f \in Files : sent[s][f] > 1 => <<s, f>> \in raced

ServersSound == LiveIsMapped /\ WaitsOnLive /\ DoubleOpenOnlyRaced

\* Every read_symbol call answers, with a definition or an error: no start, retry,
\* death or missing server leaves it waiting.
CallsAnswered == \A c \in Calls : call[c].pc = "ensure" ~> call[c].pc = "answered"
=============================================================================
