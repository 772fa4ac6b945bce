----------------------------- MODULE Approvals -----------------------------
(***************************************************************************)
(* Who may run a tool call without being asked: the permission gate        *)
(* (permission.ts), the "always allow" grants (approvalAllowlist.ts, the   *)
(* handlers of agentIpc.ts) and the project's persisted part of them       *)
(* (approvalStore.ts), whose read, write and rename interleave with those  *)
(* of other grants, with a revocation from the settings, with an edit by   *)
(* hand and with a crash.  All sessions belong to one project.             *)
(***************************************************************************)
EXTENDS Naturals, FiniteSets

CONSTANTS
  Sessions,   \* sessions of the project
  Tokens,     \* leading tokens of shell commands
  Saves,      \* the saves of approvals.json that a behaviour may hold
  Smuggled,   \* patterns a hand may add to approvals.json that the program would not
  MaxAnswers, \* bound: answers "always" of a behaviour
  None,       \* no file
  Torn        \* a body no reader can parse

VARIABLES
  allowlist,  \* per session: the patterns granted while the program runs
  seeded,     \* per session: the project's patterns, read when its run began
  inode,      \* what each file body holds
  approvals,  \* the body behind approvals.json, None before the first save
  tmp,        \* the body behind approvals.json.tmp
  save,       \* per save: how far it is
  answers,    \* history: what the user answered "always" to
  lasting,    \* history: what the saves, taken one at a time, should have left
  disturbed   \* history: saves overlapped, or one was cut short

storeVars == <<inode, approvals, tmp, save>>
historyVars == <<answers, lasting, disturbed>>
vars == <<allowlist, seeded, storeVars, historyVars>>

\* A pattern of the allowlist: bash:<token>, bash-nosandbox:<token>, edit:*.
Bash(t) == <<"bash", t>>
NoSandbox(t) == <<"bash-nosandbox", t>>
EditPattern == <<"edit", "*">>
Patterns == {Bash(t) : t \in Tokens} \cup {NoSandbox(t) : t \in Tokens} \cup {EditPattern}

\* The namespace that may cross processes.
Persistable == {Bash(t) : t \in Tokens}

\* A call: a bash line is the set of the leading tokens of its sub-commands, empty
\* for a blank line; the other tools carry none.
Calls ==
  [tool : {"bash"}, tokens : SUBSET Tokens, escape : BOOLEAN]
    \cup [tool : {"read_file", "edit_file", "run_on_server"}, tokens : {{}}, escape : {FALSE}]

Modes == {"ask", "auto-edit", "plan", "full"}

\* What the gate of a mode does on its own; "ask" leaves it to the approval.
Gate(mode, call) ==
  CASE mode = "full" -> IF call.escape THEN "ask" ELSE "allow"
    [] mode = "plan" -> IF call.tool = "read_file" THEN "allow" ELSE "deny"
    [] mode = "auto-edit" -> IF call.tool \in {"read_file", "edit_file"} THEN "allow" ELSE "ask"
    [] mode = "ask" -> IF call.tool = "read_file" THEN "allow" ELSE "ask"

\* The patterns "always" would add for a call, none when it is not offered.
DeriveGrant(call) ==
  CASE call.tool = "edit_file" -> {EditPattern}
    [] call.tool = "bash" ->
         IF call.escape THEN {NoSandbox(t) : t \in call.tokens} ELSE {Bash(t) : t \in call.tokens}
    [] OTHER -> {}

\* Mutant: one granted sub-command lets the whole line through.
AnySubCommand(call, patterns) ==
  CASE call.tool = "edit_file" -> EditPattern \in patterns
    [] call.tool = "bash" -> \E t \in call.tokens : {Bash(t), NoSandbox(t)} \cap patterns # {}
    [] OTHER -> FALSE

MatchesAllowlist(call, patterns) ==
  CASE call.tool = "edit_file" -> EditPattern \in patterns
    [] call.tool = "bash" ->
         /\ call.tokens # {}
         /\ \A t \in call.tokens :
              \/ NoSandbox(t) \in patterns
              \/ ~call.escape /\ Bash(t) \in patterns
    [] OTHER -> FALSE

\* readProjectAllowlist: a missing or unreadable file counts as empty, and what a
\* hand wrote beyond bash: is filtered out.
ProjectAllowlist ==
  IF approvals = None \/ inode[approvals] = Torn THEN {} ELSE inode[approvals] \cap Persistable

Idle == [pc |-> "idle", add |-> {}, remove |-> {}, current |-> {}, fd |-> None]
Bodies == {"first"} \cup Saves

\* What the constants must be: no file is no body, a torn body holds no patterns, and
\* what a hand smuggles in is beyond what the program persists.
Distinct ==
  /\ None \notin Bodies
  /\ \A patterns \in SUBSET Patterns : Torn # patterns
  /\ Smuggled \subseteq Patterns \ Persistable

Init ==
  /\ allowlist = [s \in Sessions |-> {}]
  /\ seeded = [s \in Sessions |-> {}]
  /\ inode = [b \in Bodies |-> {}]
  /\ approvals = None
  /\ tmp = None
  /\ save = [w \in Saves |-> Idle]
  /\ answers = {}
  /\ lasting = {}
  /\ disturbed = FALSE

-----------------------------------------------------------------------------
\* A run starts: agent:run reads the project's patterns once.
StartRun(s) ==
  /\ seeded' = [seeded EXCEPT ![s] = ProjectAllowlist]
  /\ UNCHANGED <<allowlist, storeVars, historyVars>>

\* The approval prompt is skipped: the session's grants and the project's cover it.
Unattended(s, call) == MatchesAllowlist(call, allowlist[s] \cup seeded[s])

SavesUnderWay == {w \in Saves : save[w].pc \notin {"idle", "over"}}

\* One read-merge-write starts: the read is its first await.
StartSave(w, add, remove) ==
  /\ save[w].pc = "idle"
  /\ save' = [save EXCEPT ![w] = [@ EXCEPT !.pc = "read", !.add = add, !.remove = remove]]
  /\ disturbed' = (disturbed \/ SavesUnderWay # {})
  /\ lasting' = (lasting \cup add) \ remove

\* The user answers "always allow" to the card of a call, which an answer of the
\* meantime may cover: the grant joins the session, and the project's file when
\* that was offered and chosen.
Always(s, call, forProject) ==
  LET grant == DeriveGrant(call)
  IN  /\ \E mode \in Modes : Gate(mode, call) = "ask"
      /\ grant # {}
      /\ Cardinality(answers) < MaxAnswers
      /\ allowlist' = [allowlist EXCEPT ![s] = @ \cup grant]
      /\ answers' = answers \cup {[session |-> s, call |-> call, project |-> forProject]}
      /\ IF forProject
         THEN grant \subseteq Persistable /\ \E w \in Saves : StartSave(w, grant \cap Persistable, {})
         ELSE UNCHANGED <<save, lasting, disturbed>>
      /\ UNCHANGED <<seeded, inode, approvals, tmp>>

\* The settings page revokes a persisted pattern.
Revoke(w, pattern) ==
  /\ pattern \in ProjectAllowlist
  /\ StartSave(w, {}, {pattern})
  /\ UNCHANGED <<allowlist, seeded, inode, approvals, tmp, answers>>

\* The read returns and the patterns are merged.
ReadAndMerge(w) ==
  /\ save[w].pc = "read"
  /\ save' = [save EXCEPT ![w] =
       [@ EXCEPT !.pc = "merged", !.current = (ProjectAllowlist \cup save[w].add) \ save[w].remove]]
  /\ UNCHANGED <<allowlist, seeded, inode, approvals, tmp, historyVars>>

\* writeFile opens the temporary file, truncating the body another save may write.
OpenTmp(w) ==
  LET body == IF tmp = None THEN w ELSE tmp
  IN  /\ save[w].pc = "merged"
      /\ tmp' = body
      /\ inode' = [inode EXCEPT ![body] = Torn]
      /\ save' = [save EXCEPT ![w] = [@ EXCEPT !.pc = "opened", !.fd = body]]
      /\ UNCHANGED <<allowlist, seeded, approvals, historyVars>>

\* The text goes into the body that was opened, under whatever name it has by now;
\* over another save's text a longer tail may be left.
WriteTmp(w) ==
  /\ save[w].pc = "opened"
  /\ \E text \in IF inode[save[w].fd] = Torn THEN {save[w].current} ELSE {save[w].current, Torn} :
       inode' = [inode EXCEPT ![save[w].fd] = text]
  /\ save' = [save EXCEPT ![w] = [@ EXCEPT !.pc = "written"]]
  /\ UNCHANGED <<allowlist, seeded, approvals, tmp, historyVars>>

\* The rename puts whatever the temporary name stands for in place; without one it
\* is rejected, and the caller ignores it.
Rename(w) ==
  /\ save[w].pc = "written"
  /\ IF tmp = None
     THEN UNCHANGED <<approvals, tmp>>
     ELSE approvals' = tmp /\ tmp' = None
  /\ save' = [save EXCEPT ![w] = [Idle EXCEPT !.pc = "over"]]
  /\ UNCHANGED <<allowlist, seeded, inode, historyVars>>

\* The program ends and starts again: what was in memory is gone, and a temporary
\* file is left as it was.
Crash ==
  /\ allowlist' = [s \in Sessions |-> {}]
  /\ seeded' = [s \in Sessions |-> {}]
  /\ save' = [w \in Saves |-> IF w \in SavesUnderWay THEN [Idle EXCEPT !.pc = "over"] ELSE save[w]]
  /\ answers' = {a \in answers : a.project}
  /\ disturbed' = (disturbed \/ SavesUnderWay # {})
  /\ UNCHANGED <<inode, approvals, tmp, lasting>>

\* Someone edits approvals.json and adds a pattern the program never persists.
EditByHand(pattern) ==
  /\ approvals # None
  /\ inode[approvals] # Torn
  /\ SavesUnderWay = {}
  /\ inode' = [inode EXCEPT ![approvals] = @ \cup {pattern}]
  /\ UNCHANGED <<allowlist, seeded, approvals, tmp, save, historyVars>>

Next ==
  \/ \E s \in Sessions : StartRun(s)
  \/ \E s \in Sessions, call \in Calls, forProject \in BOOLEAN : Always(s, call, forProject)
  \/ \E w \in Saves, pattern \in Persistable : Revoke(w, pattern)
  \/ \E w \in Saves : ReadAndMerge(w) \/ OpenTmp(w) \/ WriteTmp(w) \/ Rename(w)
  \/ Crash
  \/ \E pattern \in Smuggled : EditByHand(pattern)

Spec == Init /\ [][Next]_vars

-----------------------------------------------------------------------------
Contents == {Torn} \cup SUBSET Patterns

TypeOK ==
  /\ allowlist \in [Sessions -> SUBSET Patterns]
  /\ seeded \in [Sessions -> SUBSET Patterns]
  /\ inode \in [Bodies -> Contents]
  /\ approvals \in Bodies \cup {None}
  /\ tmp \in Bodies \cup {None}
  /\ save \in [Saves -> [pc : {"idle", "read", "merged", "opened", "written", "over"},
                         add : SUBSET Patterns, remove : SUBSET Patterns,
                         current : SUBSET Patterns, fd : Bodies \cup {None}]]
  /\ answers \subseteq [session : Sessions, call : Calls, project : BOOLEAN]
  /\ lasting \in SUBSET Patterns
  /\ disturbed \in BOOLEAN

\* The user said "always" to a bash line with this sub-command: in this session, or
\* in any session of the project and to a sandboxed line that was to be persisted.
\* Leaving the sandbox takes an answer of this session to a line that left it.
SaidAlways(s, t, escape) ==
  \E a \in answers :
    /\ t \in a.call.tokens
    /\ \/ a.session = s
       \/ a.project /\ ~a.call.escape
    /\ escape => a.call.escape

\* A call that runs unattended on the strength of the allowlist was granted by the
\* user, sub-command by sub-command, whatever the saves did to the file, whatever a
\* hand added to it and whatever was lost in a crash; a server call never is.
UnattendedIsGranted ==
  \A s \in Sessions, call \in Calls :
    Unattended(s, call) =>
      \/ /\ call.tool = "bash"
         /\ call.tokens # {}
         /\ \A t \in call.tokens : SaidAlways(s, t, call.escape)
      \/ /\ call.tool = "edit_file"
         /\ \E a \in answers : a.session = s /\ a.call.tool = "edit_file"

\* Saves that ran one at a time left exactly what was granted and not revoked;
\* overlapping ones may lose a grant, revive a revoked one or leave no readable
\* file, and still never hold a pattern nobody asked to persist.
SerialSavesKeep ==
  ~disturbed /\ SavesUnderWay = {} => ProjectAllowlist = lasting

StoreNeverWider ==
  \A t \in Tokens : Bash(t) \in ProjectAllowlist =>
    \E a \in answers : a.project /\ ~a.call.escape /\ t \in a.call.tokens

GrantsKept == UnattendedIsGranted /\ SerialSavesKeep /\ StoreNeverWider
=============================================================================
