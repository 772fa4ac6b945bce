----------------------------- MODULE CodeRoots -----------------------------
(***************************************************************************)
(* The code a project's runs may see (projectsStorage.ts): local code      *)
(* roots, seeded once by a scan of the workspace (repoScan.ts), and remote *)
(* repositories cloned under the project (repoClone.ts).  project.json is  *)
(* read, edited and replaced by handlers that nothing orders; a clone is a *)
(* child process that an aborted run kills.  Replacing project.json is one *)
(* step: the race for its .tmp is the one of ModelRegistry.                *)
(***************************************************************************)
EXTENDS Naturals, FiniteSets

CONSTANTS
  Roots,    \* local directories
  Found,    \* the ones a scan of the workspace finds
  OriginOf, \* the repository each of them is a checkout of, None for none
  Urls,     \* repositories, by normalized url
  Jobs,     \* handlers and run starts that may be under way at once
  Starts,   \* bound: of a behaviour
  None      \* no project, roots never seeded, no origin

VARIABLES
  project,   \* project.json: code roots and remotes, None once deleted
  home,      \* the project's directory is there
  disk,      \* per remote id: its clone is "absent", "partial" or "whole"
  job,       \* per handler: how far it is, its request, the project it will write, clones left
  started,   \* bound: how many; also the source of remote ids
  ready,     \* the clones the last run start took as code roots, as they were then
  serial,    \* history: project.json, had the handlers run one after the other
  overlapped,\* history: two of them were under way at a time
  broken     \* history: remotes a clone left halfway, or that were read while a clone ran

vars == <<project, home, disk, job, started, ready, serial, overlapped, broken>>

Ids == 1..Starts
Remotes == [id : Ids, url : Urls]
Projects == [roots : (SUBSET Roots) \cup {None}, remotes : SUBSET Remotes]

\* A deleted project.json is not one with some content, and a scan finds directories.
Scanned == None \notin Projects /\ Found \subseteq Roots /\ Starts \in Nat

Handler(pc, ask, edit, left) == [pc |-> pc, ask |-> ask, edit |-> edit, left |-> left, at |-> 0]
Rest == Handler("done", [op |-> "none"], None, {})

Init ==
  /\ project = [roots |-> None, remotes |-> {}] /\ serial = project /\ home = TRUE
  /\ disk = [i \in Ids |-> "absent"]
  /\ job = [j \in Jobs |-> Rest] /\ started = 0
  /\ ready = {} /\ overlapped = FALSE /\ broken = {}

\* Mutant: an empty list of code roots is seeded again.
SeedsWhenEmpty(p) == p.roots \in {None, {}}

\* ensureCodeRootsSeeded: only a project whose list was never written.
NeedsSeed(p) == p.roots = None

RootsOf(p) == IF p.roots = None THEN {} ELSE p.roots

\* addRemote throws when the repository is registered, or is a code root's origin.
Known(p, url) ==
  \/ \E r \in p.remotes : r.url = url
  \/ \E r \in RootsOf(p) : OriginOf[r] = url

\* What a handler makes of the project it read.
Edited(ask, p, id) ==
  CASE ask.op = "seed" -> IF NeedsSeed(p) THEN [p EXCEPT !.roots = Found] ELSE p
    [] ask.op = "addRoot" -> [p EXCEPT !.roots = RootsOf(p) \cup {ask.root}]
    [] ask.op = "removeRoot" -> [p EXCEPT !.roots = RootsOf(p) \ {ask.root}]
    [] ask.op = "addRemote" ->
         IF Known(p, ask.url) THEN p
         ELSE [p EXCEPT !.remotes = @ \cup {[id |-> id, url |-> ask.url]}]
    [] ask.op = "removeRemote" -> [p EXCEPT !.remotes = {r \in @ : r.id # ask.id}]
    [] OTHER -> p

Registered(p) == IF p = None THEN {} ELSE {r.id : r \in p.remotes}

Requests ==
  [op : {"seed", "run"}] \cup [op : {"addRoot", "removeRoot"}, root : Roots]
  \cup [op : {"addRemote"}, url : Urls] \cup [op : {"removeRemote", "clone"}, id : Ids]

\* A handler reads project.json.  One that changes nothing ends there (the removals write all
\* the same, to no effect but a later rm); a clone and the start of a run go on to the clones.
Start(j, ask) ==
  /\ job[j].pc = "done" /\ started < Starts /\ project # None
  /\ ask.op \in {"clone", "removeRemote"} => ask.id \in Registered(project)
  /\ started' = started + 1
  /\ LET edit == Edited(ask, project, started')
         visits == IF ask.op = "run" THEN Registered(project) ELSE {ask.id}
     IN  job' = [job EXCEPT ![j] =
           CASE ask.op \in {"run", "clone"} -> Handler("clones", ask, None, visits)
             [] edit # project -> Handler("write", ask, edit, {})
             [] OTHER -> Rest]
  /\ serial' = IF serial = None THEN None ELSE Edited(ask, serial, started')
  /\ overlapped' = (overlapped \/ \E k \in Jobs : job[k].pc # "done")
  /\ ready' = IF ask.op = "run" THEN {} ELSE ready
  /\ UNCHANGED <<project, home, disk, broken>>

\* writeProject, in the project's directory if that is still there; removeRemote then has the
\* clone to remove.
WriteProject(j) ==
  /\ job[j].pc = "write"
  /\ project' = IF home THEN job[j].edit ELSE project
  /\ job' = [job EXCEPT ![j] = IF home /\ @.ask.op = "removeRemote" THEN [@ EXCEPT !.pc = "remove"] ELSE Rest]
  /\ UNCHANGED <<home, disk, started, ready, serial, overlapped, broken>>

\* removeRemote: the clone goes after its registration.
RemoveClone(j) ==
  /\ job[j].pc = "remove"
  /\ disk' = [disk EXCEPT ![job[j].ask.id] = "absent"]
  /\ job' = [job EXCEPT ![j] = Rest]
  /\ UNCHANGED <<project, home, started, ready, serial, overlapped, broken>>

\* A run that is starting takes a clone as it finds it.
Took(j, i, state) == IF job[j].ask.op = "run" THEN ready \cup {[id |-> i, state |-> state]} ELSE ready

\* remoteView, cloneOrUpdate: a clone that has its marker is taken (a pull changes nothing
\* here, and fails on half a clone), an absent one is cloned, and its marker comes first.
Visit(j) ==
  /\ job[j].pc = "clones" /\ job[j].left # {}
  /\ LET i == CHOOSE k \in job[j].left : \A l \in job[j].left : k <= l
         absent == disk[i] = "absent"
     IN  /\ job' = [job EXCEPT ![j].left = @ \ {i}, ![j].at = i,
                               ![j].pc = IF absent THEN "cloning" ELSE @]
         /\ disk' = [disk EXCEPT ![i] = IF absent THEN "partial" ELSE @]
         /\ home' = (home \/ absent)
         /\ ready' = IF absent THEN ready ELSE Took(j, i, disk[i])
         /\ broken' = IF \E k \in Jobs : job[k].pc = "cloning" /\ job[k].at = i
                      THEN broken \cup {i} ELSE broken
  /\ UNCHANGED <<project, started, serial, overlapped>>

\* git or svn ends: the clone is whole, or it failed and is removed, or - git killed by the
\* run's stop, svn by any failure - it stays halfway.
CloneEnds(j, how) ==
  /\ job[j].pc = "cloning"
  /\ LET i == job[j].at IN
       /\ how # "removed" => disk[i] # "absent"
       /\ disk' = [disk EXCEPT ![i] = CASE how = "ok" -> "whole" [] how = "removed" -> "absent" [] OTHER -> @]
       /\ broken' = IF how = "left" THEN broken \cup {i} ELSE broken
       /\ ready' = IF how = "ok" THEN Took(j, i, "whole") ELSE ready
  /\ job' = [job EXCEPT ![j].pc = "clones"]
  /\ UNCHANGED <<project, home, started, serial, overlapped>>

Leave(j) ==
  /\ job[j].pc = "clones" /\ job[j].left = {}
  /\ job' = [job EXCEPT ![j] = Rest]
  /\ UNCHANGED <<project, home, disk, started, ready, serial, overlapped, broken>>

\* deleteProject: the directory goes with everything in it.
Delete ==
  /\ project # None
  /\ project' = None /\ serial' = None /\ home' = FALSE /\ disk' = [i \in Ids |-> "absent"]
  /\ overlapped' = (overlapped \/ \E j \in Jobs : job[j].pc # "done")
  /\ UNCHANGED <<job, started, ready, broken>>

Next ==
  \/ \E j \in Jobs :
       \/ \E ask \in Requests : Start(j, ask)
       \/ WriteProject(j) \/ RemoveClone(j) \/ Visit(j) \/ Leave(j)
       \/ \E how \in {"ok", "removed", "left"} : CloneEnds(j, how)
  \/ Delete

Spec == Init /\ [][Next]_vars

----------------------------------------------------------------------------

JobStates ==
  [pc : {"done", "write", "remove", "clones", "cloning"},
   ask : Requests \cup {[op |-> "none"]}, edit : Projects \cup {None}, left : SUBSET Ids,
   at : Ids \cup {0}]

TypeOK ==
  /\ project \in Projects \cup {None} /\ serial \in Projects \cup {None}
  /\ started \in 0..Starts /\ home \in BOOLEAN /\ overlapped \in BOOLEAN /\ broken \subseteq Ids
  /\ disk \in [Ids -> {"absent", "partial", "whole"}]
  /\ job \in [Jobs -> JobStates]
  /\ ready \subseteq [id : Ids, state : {"partial", "whole"}]

\* Handlers that do not overlap keep the project: a root the user removed is not found again,
\* no repository is registered twice, and a clone goes with its registration.
ProjectKept ==
  ~overlapped /\ (\A j \in Jobs : job[j].pc = "done") =>
    /\ project = serial
    /\ project # None => \A q, r \in project.remotes : q.url = r.url => q = r
    /\ \A i \in Ids : disk[i] # "absent" => i \in Registered(project)

\* A run is given half a clone only if a clone was left halfway or still ran: the marker of a
\* checkout does not say that the clone ended.
ReadyIsWhole == \A r \in ready : r.state = "whole" \/ r.id \in broken

RootsSound == ProjectKept /\ ReadyIsWhole
=============================================================================
